---- MODULE Spec2Model ----
(***************************************************************************)
(* MicroAI Paygate gateway: the request-timeout guard                      *)
(* (RequestTimeoutMiddleware and its bufferedWriter), the payment-gated    *)
(* summarize pipeline (CacheMiddleware, handleSummarize, verifyPayment,    *)
(* generateAndSendReceipt) and the token-bucket rate limiter.              *)
(*                                                                         *)
(* The specifications share the variables:                                 *)
(*   SpecGuard   one request under RequestTimeoutMiddleware                *)
(*   SpecGuardFair  the same, with goroutines and timers scheduled fairly  *)
(*   SpecGuardCoop  the same, with a handler that does not block on I/O    *)
(*   Spec        summarize requests against a shared cache/receipt store   *)
(*   SpecBucket  concurrent callers of one TokenBucket                     *)
(*   SpecLimiter one caller, idle time and the limiter's sweep             *)
(*   SpecRemaining  AllowN and GetRemaining over time                      *)
(*   SpecReceipts   the receipt store: issue, lookup, expiry and sweep     *)
(*   SpecPayment 402 challenges and verifyPayment calls under every        *)
(*               payment configuration                                     *)
(*   SpecRate    RateLimitMiddleware at the head of the handler chain      *)
(*   SpecIssue   generateAndSendReceipt with validation before storage     *)
(*   SpecKey     concurrent callers of getServerPrivateKey                 *)
(*   SpecCorr    CorrelationIDMiddleware and the calls that carry the id   *)
(*   SpecGuardOps  SpecGuard with the handler's Flush and Hijack           *)
(*   SpecNested  the global and the route-level guard around one handler   *)
(*   SpecRefine  one request with and without CacheMiddleware              *)
(*   SpecModel   cache keys across changes of OPENROUTER_MODEL             *)
(*   SpecSweep   the receipt sweeper: ticker, shutdown and final sweep     *)
(***************************************************************************)
EXTENDS Integers, Sequences, FiniteSets, TLC

\* ------------------------------------------------------------------ bounds
MaxTime == 1
MaxTimeout == 2
MaxOps == 2
NReq == 2
NCallers == 2
MaxCalls == 3
MaxN == 2
MaxTicks == 1
Burst == 2
Rpm == 45
MaxSeqCalls == 5
MaxIdle == 3
MaxTTL == 2
MaxRemCalls == 2
MaxRTTL == 2
MaxRNow == 3
MaxReceipts == 2
MaxChallenges == 2
MaxVerifyCalls == 2
MaxRateReqs == 3
MaxRateTime == 2
MaxReset == 2
RateBurst == 1
MaxSends == 2
MaxKeyCalls == 2
MaxNestTime == 3
MaxNestTimeout == 2
MaxNestOps == 2
MaxStrLen == 2
MaxKeyStores == 1
NCorr == 2

\* ---------------------------------------------------------------- guard state
VARIABLES
    now,            \* wall clock (time.Now()), in ticks
    timeout,        \* the middleware's timeout argument
    parentDeadline, \* c.Request.Context().Deadline() on entry: [ok, d]
    entryNow,       \* time.Now() read on entry
    ctxDeadline,    \* deadline of the ctx handed to the handler: [ok, d]
    hasCancel,      \* cancel != nil (defer cancel())
    ctxErr,         \* ctx.Err(): "" | "DeadlineExceeded" | "Canceled"
    guard,          \* "init" | "RUNNING" | "closing" | "COMPLETED" | "TIMED_OUT" | "PANICKED"
    cWriter,        \* c.Writer: "orig" | "shim"
    bw,             \* the bufferedWriter
    orig,           \* origWriter, the real writer, as a recorder of what it received
    origHead0,      \* the real writer's headers when the guard was entered
    hpc,            \* handler goroutine: "none" | "running" | "done" | "panicking" | "gone"
    finished,       \* the finished channel is closed
    panicChan,      \* value offered on panicChan by the blocked sender
    raised,         \* panic value re-raised in the caller's goroutine
    recovered,      \* the outer gin.Recovery has handled the re-raised panic
    hw,             \* ghost: what the handler wrote through c.Writer
    ops,            \* ghost: number of handler operations so far
    flushed,        \* ghost: the guard ran flushTo
    sent504         \* ghost: the guard wrote the timeout response

gvars == <<now, timeout, parentDeadline, entryNow, ctxDeadline, hasCancel, ctxErr,
           guard, cWriter, bw, orig, origHead0, hpc, finished, panicChan, raised,
           recovered, hw, ops, flushed, sent504>>

\* ------------------------------------------------------------- pipeline state
VARIABLES
    redisClient,    \* "nil" | "client" (nil also stands for the route without CacheMiddleware)
    cache,          \* the Redis store: cache key -> cached result, or NoEntry
    storing,        \* cache stores started by the fire-and-forget goroutines, not yet done
    receiptStore,   \* the in-memory receipt index: set of stored receipts
    nextReceipt,    \* ghost: number of receipt ids handed out
    rpc,            \* per request: where its goroutine stands
    req,            \* per request: the request as received
    path,           \* per request: "none" | "bypass" | "hit" | "miss"
    cached,         \* per request: the entry the lookup returned on a hit
    verdict,        \* per request: outcome of verifyPayment, "none" before it returns
    aiCalled,       \* per request: callOpenRouter was started
    summary,        \* per request: the result to be sent (cached or live)
    resp            \* per request: what was written to c.Writer

pvars == <<redisClient, cache, storing, receiptStore, nextReceipt, rpc, req, path, cached,
           verdict, aiCalled, summary, resp>>

\* ---------------------------------------------------------- rate limiter state
VARIABLES
    clock,          \* time.Now() as the limiter reads it, in seconds
    buckets,        \* key -> bucket, or NoBucket before first use
    mu,             \* key -> caller holding the bucket's lock, 0 when free
    cpc,            \* per caller: "idle" | "locked"
    call,           \* per caller: the call in progress, [key, n]
    avail,          \* per caller: tokens it found available after the refill
    ncalls,         \* ghost: calls started so far, all callers
    hist,           \* ghost: per key, the results in the order the calls took effect
    last            \* ghost: per key, the last call that took effect

bvars == <<clock, buckets, mu, cpc, call, avail, ncalls, hist, last>>

VARIABLES
    ttl,            \* cleanupTTL, in seconds
    rem             \* ghost: the last GetRemaining call, [key, value, at]

lvars == <<ttl, rem>>

\* ------------------------------------------- the guard around the pipeline
VARIABLES
    closed,         \* per request: the guard took the ctx.Done branch (bw.closed, ctx done)
    bwr,            \* per request: what the guard's bufferedWriter holds
    client,         \* per request: the response on the real writer, NoResp before
    lookup,         \* per request: what getFromCache returned: "none" | "hit" | "absent" | "error"
    started         \* ghost, per request: CacheMiddleware launched its store goroutine

xvars == <<closed, bwr, client, lookup, started>>

\* -------------------------------------------------------- receipt store state
VARIABLES
    rnow,           \* time.Now() as the receipt store reads it
    rttl,           \* getReceiptTTL()
    got,            \* ghost: the last getReceipt call, [id, at, found, receipt, issued]
    issued          \* ghost: every receipt stored so far, with its store time

svars == <<rnow, rttl, got, issued>>

\* ------------------------------------------------------------ payment state
VARIABLES
    env,            \* the process environment read by the payment configuration getters
    nextNonce,      \* ghost: number of uuids handed out by createPaymentContext
    vlog,           \* ghost: the verifyPayment calls so far, [signature, nonce, request, reply, passes]
    vreply          \* per request: what its verifier call came back with, NoReply before

yvars == <<env, vlog>>

\* ------------------------------------------------------------- connection
VARIABLES
    hijacked        \* the handler has taken the connection over from the real writer

zvars == <<hijacked>>

\* ----------------------------------------------------------- rate-limit state
VARIABLES
    rq,             \* the request in RateLimitMiddleware's chain, NoRq between requests
    tokens,         \* per tier and key: whole tokens left in the limiter's bucket
    rtime,          \* time.Now().Unix() as the rate-limit middleware reads it
    served,         \* ghost: number of requests that entered the chain
    admits          \* ghost, per client address: requests without a verifying signature
                    \* admitted since the clock last moved

rvars == <<rq, tokens, rtime, served, admits>>

\* ------------------------------------------------------- receipt issuance
VARIABLES
    gs              \* ghost: the last generateAndSendReceipt call, NoSend before

qvars == <<gs>>

\* ------------------------------------------------------------ signing key
VARIABLES
    kenv,           \* SERVER_WALLET_PRIVATE_KEY as the process sees it
    once,           \* serverPrivateKeyOnce: [done, m], m the holder of its mutex or 0
    skey,           \* serverPrivateKey and serverPrivateKeyErr
    kc,             \* per caller of getServerPrivateKey: [pc, calls]
    loads,          \* ghost: how often the loading function has run
    krets           \* ghost: every (key, error) pair returned so far

kvars == <<kenv, once, skey, kc, loads, krets>>

\* ---------------------------------------------------------- correlation ids
VARIABLES
    cq,             \* per request of the correlation chain: its record, see NoCq
    cuuids          \* ghost: number of uuids CorrelationIDMiddleware has drawn

cvars == <<cq, cuuids>>

\* ------------------------------------------------------------ nested guards
VARIABLES
    nnow,           \* the clock of the nested guards
    nctx,           \* per guard: the deadline of its ctx, own: it created the ctx
    nerr,           \* per guard: ctx.Err() of its ctx, "" while not done
    ng,             \* per guard: where RequestTimeoutMiddleware is
    nh,             \* per guard: its goroutine running c.Next()
    nbw,            \* per guard: its bufferedWriter
    nreal,          \* the real response writer
    ncw,            \* c.Writer: "real", "shim1" or "shim2"
    nfin,           \* per guard: finished is closed
    npan,           \* per guard: the value offered on panicChan
    nhw,            \* ghost: the response the handler asked for
    nops            \* ghost: number of writer calls the handler made

dvars == <<nnow, nctx, nerr, ng, nh, nbw, nreal, ncw, nfin, npan, nhw, nops>>

\* ------------------------------------------------- cache layer, end to end
VARIABLES
    tq,             \* the request and how verifier, AI service, receipt step and
                    \* cache lookup behave for it, NoTq before it arrives
    tst             \* the status it gets with CacheMiddleware and without

fvars == <<tq, tst>>

\* ------------------------------------------------------------- cache keys
VARIABLES
    kmodel,         \* OPENROUTER_MODEL
    kcache,         \* Redis: the entries stored, each with its key
    kgot            \* ghost: the last lookup and the entry it returned

mvars == <<kmodel, kcache, kgot>>

\* ---------------------------------------------------------- receipt sweeper
VARIABLES
    cleanupCtx,     \* Err() of the context handed to startReceiptCleanup
    mainpc,         \* main: "serving", "cancelled" after cleanupCancel(), "exited"
    sweeppc         \* the sweep goroutine: "loop" or "stopped"

wvars == <<cleanupCtx, mainpc, sweeppc>>

nvars == <<yvars, zvars, rvars, qvars, kvars, cvars, dvars, fvars, mvars, wvars>>

vars == <<gvars, pvars, bvars, lvars, xvars, svars, nextNonce, vreply, nvars>>

outside == <<gvars, bvars, lvars, svars, nvars>>
notGuard == <<pvars, bvars, lvars, xvars, svars, nextNonce, vreply, nvars>>
notHandler == <<outside, vreply>>
notVerify == <<outside, nextNonce>>
notPipeline == <<outside, nextNonce, vreply>>
notBucket == <<gvars, pvars, xvars, svars, nextNonce, vreply, nvars>>
notPayment == <<gvars, pvars, bvars, lvars, xvars, svars, vreply, zvars, rvars, qvars, kvars, cvars, dvars, fvars, mvars, wvars>>
notRate == <<gvars, pvars, bvars, lvars, xvars, svars, nextNonce, vreply, yvars, zvars, qvars, kvars, cvars, dvars, fvars, mvars, wvars>>
notIssue == <<gvars, bvars, lvars, xvars, svars, nextNonce, vreply, yvars, zvars, rvars, kvars, cvars, dvars, fvars, mvars, wvars>>
notKey == <<gvars, pvars, bvars, lvars, xvars, svars, nextNonce, vreply, yvars, zvars, rvars, qvars, cvars, dvars, fvars, mvars, wvars>>
notCorr == <<gvars, pvars, bvars, lvars, xvars, svars, nextNonce, vreply, yvars, zvars, rvars, qvars, kvars, dvars, fvars, mvars, wvars>>
notWire == <<pvars, bvars, lvars, xvars, svars, nextNonce, vreply, yvars, rvars, qvars, kvars, cvars, dvars, fvars, mvars, wvars>>
notNest == <<gvars, pvars, bvars, lvars, xvars, svars, nextNonce, vreply, yvars, zvars, rvars, qvars, kvars, cvars, fvars, mvars, wvars>>
notRefine == <<gvars, pvars, bvars, lvars, xvars, svars, nextNonce, vreply, yvars, zvars, rvars, qvars, kvars, cvars, dvars, mvars, wvars>>
notModel == <<gvars, pvars, bvars, lvars, xvars, svars, nextNonce, vreply, yvars, zvars, rvars, qvars, kvars, cvars, dvars, fvars, wvars>>
notSweep == <<gvars, bvars, lvars, xvars, nextNonce, vreply, yvars, zvars, rvars, qvars, kvars, cvars, dvars, fvars, mvars>>

\* --------------------------------------------------------------- guard domains
HeaderKeys == {"Content-Type", "X-402-Receipt"}
HeaderVals == {"v1", "v2"}
Chunks == {"a", "b"}
HandlerStatuses == {200, 500}
PanicVals == {"p1", "p2"}
NoPanic == "nil"
NoHead == [k \in HeaderKeys |-> <<>>]
NoDeadline == [ok |-> FALSE, d |-> 0]
Timeouts == 0 .. MaxTimeout
ParentDeadlines == {NoDeadline} \cup {[ok |-> TRUE, d |-> x] : x \in 0 .. MaxTime + 1}
\* headers already set on the real writer by the middleware above the guard
InitialHeads == {[NoHead EXCEPT !["Content-Type"] = <<"v0">>]}
MaxClock == MaxTime + MaxTimeout
Terminal == {"COMPLETED", "TIMED_OUT", "PANICKED"}
TimeoutContentType == "application/json; charset=utf-8"
TimeoutBody == "{\"error\":\"Gateway Timeout\",\"message\":\"Request exceeded maximum allowed time\"}"
StatusOK == 200
StatusGatewayTimeout == 504
StatusInternalServerError == 500

\* ------------------------------------------------------------ bufferedWriter
newBufferedWriter ==
    [buf |-> <<>>, head |-> NoHead, status |-> StatusOK, wrote |-> FALSE, closed |-> FALSE]

bwWrite(b, data) ==
    IF b.closed THEN b ELSE [b EXCEPT !.wrote = TRUE, !.buf = Append(@, data)]

bwWriteHeader(b, statusCode) ==
    IF b.closed THEN b ELSE [b EXCEPT !.status = statusCode]

bwWriteHeaderNow(b) ==
    [b EXCEPT !.status = IF @ = 0 THEN StatusOK ELSE @, !.wrote = TRUE]

bwStatus(b) == IF b.status = 0 THEN StatusOK ELSE b.status

\* Header() hands out the map itself: the caller's Set/Add mutate b.head
bwHeaderSet(b, k, v) == [b EXCEPT !.head[k] = <<v>>]
bwHeaderAdd(b, k, v) == [b EXCEPT !.head[k] = Append(@, v)]

\* -------------------------------------------------------------- real writer
rwHeaderSet(w, k, v) == [w EXCEPT !.head[k] = <<v>>]
rwHeaderAdd(w, k, v) == [w EXCEPT !.head[k] = Append(@, v)]
rwWriteHeader(w, code) == [w EXCEPT !.status = code, !.calls = @ + 1]
rwWrite(w, data) == [w EXCEPT !.body = Append(@, data)]

flushToStatusAlwaysOK(b) == StatusOK
flushToStatus(b) == bwStatus(b)

flushTo(b, w) ==
    LET h == [k \in HeaderKeys |-> w.head[k] \o b.head[k]]
        w1 == [w EXCEPT !.head = h]
        w2 == rwWriteHeader(w1, flushToStatus(b))
    IN  [w2 EXCEPT !.body = @ \o b.buf]

\* ------------------------------------------------------------------ deadline
Before(a, b) == a < b

\* context.WithDeadline(parent, d): the parent's deadline when it is earlier
WithDeadline(parent, d) ==
    IF parent.ok /\ Before(parent.d, d) THEN parent ELSE [ok |-> TRUE, d |-> d]

KeepExistingWhenLater(d, desired) == ~Before(d, desired)
KeepExisting(d, desired) == Before(d, desired)

\* the ctx chosen on entry: <<deadline, cancel != nil>>
ChooseCtx(parent, t, tnow) ==
    IF t <= 0
    THEN <<WithDeadline(parent, tnow + t), TRUE>>
    ELSE IF parent.ok
         THEN LET desired == tnow + t
              IN  IF KeepExisting(parent.d, desired)
                  THEN <<parent, FALSE>>
                  ELSE <<WithDeadline(parent, desired), TRUE>>
         ELSE <<WithDeadline(parent, tnow + t), TRUE>>

\* ---------------------------------------------------------------------- Init
InitGuard ==
    /\ now = 0
    /\ timeout = 0
    /\ parentDeadline = NoDeadline
    /\ entryNow = 0
    /\ ctxDeadline = NoDeadline
    /\ hasCancel = FALSE
    /\ ctxErr = ""
    /\ guard = "init"
    /\ cWriter = "orig"
    /\ bw = newBufferedWriter
    /\ orig = [head |-> NoHead, status |-> 0, body |-> <<>>, calls |-> 0]
    /\ origHead0 = NoHead
    /\ hpc = "none"
    /\ finished = FALSE
    /\ panicChan = NoPanic
    /\ raised = NoPanic
    /\ recovered = FALSE
    /\ hw = [status |-> StatusOK, head |-> NoHead, body |-> <<>>]
    /\ ops = 0
    /\ flushed = FALSE
    /\ sent504 = FALSE
    /\ hijacked = FALSE


\* ------------------------------------------------------------ guard actions
\* time passes; only while it can still change what the guard observes
Tick ==
    /\ now < MaxClock
    /\ \/ guard = "init" /\ now < MaxTime
       \/ guard # "init" /\ ctxErr = "" /\ ctxDeadline.ok /\ now < ctxDeadline.d
    /\ now' = now + 1
    /\ UNCHANGED <<timeout, parentDeadline, entryNow, ctxDeadline, hasCancel, ctxErr,
                   guard, cWriter, bw, orig, origHead0, hpc, finished, panicChan,
                   raised, recovered, hw, ops, flushed, sent504>>
    /\ UNCHANGED notGuard

\* lines 142-187: derive ctx, swap the writer, start the handler goroutine
GuardEnter ==
    /\ guard = "init"
    /\ now <= MaxTime
    /\ \E t \in Timeouts, pd \in ParentDeadlines, h0 \in InitialHeads :
          LET c == ChooseCtx(pd, t, now)
          IN  /\ timeout' = t
              /\ parentDeadline' = pd
              /\ ctxDeadline' = c[1]
              /\ hasCancel' = c[2]
              /\ origHead0' = h0
              /\ orig' = [orig EXCEPT !.head = h0]
    /\ entryNow' = now
    /\ cWriter' = "shim"
    /\ bw' = newBufferedWriter
    /\ hpc' = "running"
    /\ guard' = "RUNNING"
    /\ UNCHANGED <<now, ctxErr, finished, panicChan, raised, recovered, hw, ops,
                   flushed, sent504>>
    /\ UNCHANGED notGuard

\* the ctx's timer: Done() closes with DeadlineExceeded once the deadline passed
CtxTimer ==
    /\ guard # "init"
    /\ ctxErr = ""
    /\ ctxDeadline.ok
    /\ now >= ctxDeadline.d
    /\ ctxErr' = "DeadlineExceeded"
    /\ UNCHANGED <<now, timeout, parentDeadline, entryNow, ctxDeadline, hasCancel,
                   guard, cWriter, bw, orig, origHead0, hpc, finished, panicChan,
                   raised, recovered, hw, ops, flushed, sent504>>
    /\ UNCHANGED notGuard

\* the request's context is cancelled from outside (client went away)
ParentCancel ==
    /\ guard = "RUNNING"
    /\ ctxErr = ""
    /\ ctxErr' = "Canceled"
    /\ UNCHANGED <<now, timeout, parentDeadline, entryNow, ctxDeadline, hasCancel,
                   guard, cWriter, bw, orig, origHead0, hpc, finished, panicChan,
                   raised, recovered, hw, ops, flushed, sent504>>
    /\ UNCHANGED notGuard

\* defer cancel(): runs when the guard returns or re-panics
AfterReturn(err) == IF hasCancel /\ err = "" THEN "Canceled" ELSE err

HandlerUnchanged ==
    /\ UNCHANGED <<now, timeout, parentDeadline, entryNow, ctxDeadline, hasCancel, ctxErr,
                guard, cWriter, origHead0, hpc, finished, panicChan, raised, recovered,
                flushed, sent504>>
    /\ UNCHANGED notGuard

HandlerCanAct == hpc = "running" /\ ops < MaxOps

\* c.Writer.Write / WriteString
HandlerWrite ==
    /\ HandlerCanAct
    /\ \E data \in Chunks :
          /\ IF cWriter = "shim"
             THEN bw' = bwWrite(bw, data) /\ orig' = orig
             ELSE orig' = rwWrite(orig, data) /\ bw' = bw
          /\ hw' = [hw EXCEPT !.body = Append(@, data)]
    /\ ops' = ops + 1
    /\ HandlerUnchanged

\* c.Writer.WriteHeader / c.Status
HandlerWriteHeader ==
    /\ HandlerCanAct
    /\ \E code \in HandlerStatuses :
          /\ IF cWriter = "shim"
             THEN bw' = bwWriteHeader(bw, code) /\ orig' = orig
             ELSE orig' = rwWriteHeader(orig, code) /\ bw' = bw
          /\ hw' = [hw EXCEPT !.status = code]
    /\ ops' = ops + 1
    /\ HandlerUnchanged

HandlerWriteHeaderNow ==
    /\ HandlerCanAct
    /\ IF cWriter = "shim"
       THEN bw' = bwWriteHeaderNow(bw) /\ orig' = orig
       ELSE orig' = rwWriteHeader(orig, orig.status) /\ bw' = bw
    /\ hw' = hw
    /\ ops' = ops + 1
    /\ HandlerUnchanged

\* c.Header(k, v) / c.Writer.Header().Set(k, v)
HandlerHeaderSet ==
    /\ HandlerCanAct
    /\ \E k \in HeaderKeys, v \in HeaderVals :
          /\ IF cWriter = "shim"
             THEN bw' = bwHeaderSet(bw, k, v) /\ orig' = orig
             ELSE orig' = rwHeaderSet(orig, k, v) /\ bw' = bw
          /\ hw' = [hw EXCEPT !.head[k] = <<v>>]
    /\ ops' = ops + 1
    /\ HandlerUnchanged

\* c.Writer.Header().Add(k, v)
HandlerHeaderAdd ==
    /\ HandlerCanAct
    /\ \E k \in HeaderKeys, v \in HeaderVals :
          /\ IF cWriter = "shim"
             THEN bw' = bwHeaderAdd(bw, k, v) /\ orig' = orig
             ELSE orig' = rwHeaderAdd(orig, k, v) /\ bw' = bw
          /\ hw' = [hw EXCEPT !.head[k] = Append(@, v)]
    /\ ops' = ops + 1
    /\ HandlerUnchanged

\* c.Next() returns; close(finished)
HandlerFinish ==
    /\ hpc = "running"
    /\ hpc' = "done"
    /\ finished' = TRUE
    /\ UNCHANGED <<now, timeout, parentDeadline, entryNow, ctxDeadline, hasCancel, ctxErr,
                   guard, cWriter, bw, orig, origHead0, panicChan, raised, recovered,
                   hw, ops, flushed, sent504>>
    /\ UNCHANGED notGuard

\* the handler panics; the deferred recover offers the value on panicChan
HandlerPanic ==
    /\ hpc = "running"
    /\ \E p \in PanicVals : panicChan' = p
    /\ hpc' = "panicking"
    /\ UNCHANGED <<now, timeout, parentDeadline, entryNow, ctxDeadline, hasCancel, ctxErr,
                   guard, cWriter, bw, orig, origHead0, finished, raised, recovered,
                   hw, ops, flushed, sent504>>
    /\ UNCHANGED notGuard

\* case <-finished
SelectFinished ==
    /\ guard = "RUNNING"
    /\ finished
    /\ orig' = flushTo(bw, orig)
    /\ flushed' = TRUE
    /\ guard' = "COMPLETED"
    /\ ctxErr' = AfterReturn(ctxErr)
    /\ UNCHANGED <<now, timeout, parentDeadline, entryNow, ctxDeadline, hasCancel,
                   cWriter, bw, origHead0, hpc, finished, panicChan, raised, recovered,
                   hw, ops, sent504>>
    /\ UNCHANGED notGuard

WriterAfterPanicKept(w) == w
WriterAfterPanic(w) == "orig"

\* case p := <-panicChan
SelectPanic ==
    /\ guard = "RUNNING"
    /\ hpc = "panicking"
    /\ cWriter' = WriterAfterPanic(cWriter)
    /\ raised' = panicChan
    /\ hpc' = "gone"
    /\ guard' = "PANICKED"
    /\ ctxErr' = AfterReturn(ctxErr)
    /\ UNCHANGED <<now, timeout, parentDeadline, entryNow, ctxDeadline, hasCancel,
                   bw, orig, origHead0, finished, panicChan, recovered, hw, ops,
                   flushed, sent504>>
    /\ UNCHANGED notGuard

WriterAfterTimeoutRestored(w) == "orig"
WriterAfterTimeout(w) == w

\* the timeout case ends in return: the select is not run again
AfterTimeoutSelectAgain == "RUNNING"
AfterTimeout == "TIMED_OUT"

\* case <-ctx.Done(): bw.closed = true under the lock
SelectDone ==
    /\ guard = "RUNNING"
    /\ ctxErr # ""
    /\ bw' = [bw EXCEPT !.closed = TRUE]
    /\ cWriter' = WriterAfterTimeout(cWriter)
    /\ guard' = "closing"
    /\ UNCHANGED <<now, timeout, parentDeadline, entryNow, ctxDeadline, hasCancel, ctxErr,
                   orig, origHead0, hpc, finished, panicChan, raised, recovered, hw, ops,
                   flushed, sent504>>
    /\ UNCHANGED notGuard

\* ... then the 504 response on origWriter, and return
TimeoutResponse ==
    /\ guard = "closing"
    /\ orig' = rwWrite(rwWriteHeader(rwHeaderSet(orig, "Content-Type", TimeoutContentType),
                                     StatusGatewayTimeout), TimeoutBody)
    /\ sent504' = TRUE
    /\ guard' = AfterTimeout
    /\ ctxErr' = AfterReturn(ctxErr)
    /\ UNCHANGED <<now, timeout, parentDeadline, entryNow, ctxDeadline, hasCancel,
                   cWriter, bw, origHead0, hpc, finished, panicChan, raised, recovered,
                   hw, ops, flushed>>
    /\ UNCHANGED notGuard

\* gin.Recovery above the guard: c.AbortWithStatus(500) on whatever c.Writer is
Recovery ==
    /\ guard = "PANICKED"
    /\ ~recovered
    /\ IF cWriter = "shim"
       THEN bw' = bwWriteHeaderNow(bwWriteHeader(bw, StatusInternalServerError)) /\ orig' = orig
       ELSE orig' = rwWriteHeader(orig, StatusInternalServerError) /\ bw' = bw
    /\ recovered' = TRUE
    /\ UNCHANGED <<now, timeout, parentDeadline, entryNow, ctxDeadline, hasCancel, ctxErr,
                   guard, cWriter, origHead0, hpc, finished, panicChan, raised, hw, ops,
                   flushed, sent504>>
    /\ UNCHANGED notGuard

\* gin's writer on Flush: WriteHeaderNow commits the status it holds, 200 when
\* none was set, unless the header is already out
rwFlush(w) ==
    IF w.calls > 0 THEN w
    ELSE rwWriteHeader(w, IF w.status = 0 THEN StatusOK ELSE w.status)

\* c.Writer.Flush(): the shim hands it to the real writer, middleware.go 239-243
HandlerFlush ==
    /\ HandlerCanAct
    /\ ~hijacked
    /\ orig' = rwFlush(orig)
    /\ ops' = ops + 1
    /\ UNCHANGED <<bw, hw, hijacked>>
    /\ HandlerUnchanged

\* c.Writer.Hijack(): the shim hands it to the real writer, middleware.go 246-251
HandlerHijack ==
    /\ HandlerCanAct
    /\ ~hijacked
    /\ hijacked' = TRUE
    /\ ops' = ops + 1
    /\ UNCHANGED <<bw, hw, orig>>
    /\ UNCHANGED <<now, timeout, parentDeadline, entryNow, ctxDeadline, hasCancel, ctxErr,
                   guard, cWriter, origHead0, hpc, finished, panicChan, raised, recovered,
                   flushed, sent504>>
    /\ UNCHANGED notWire

NextGuard ==
    \/ Tick
    \/ GuardEnter
    \/ CtxTimer
    \/ ParentCancel
    \/ HandlerWrite
    \/ HandlerWriteHeader
    \/ HandlerWriteHeaderNow
    \/ HandlerHeaderSet
    \/ HandlerHeaderAdd
    \/ HandlerFinish
    \/ HandlerPanic
    \/ SelectFinished
    \/ SelectPanic
    \/ SelectDone
    \/ TimeoutResponse
    \/ Recovery


\* ================================================================= pipeline
Reqs == 1 .. NReq
Texts == {"t1"}
Results == {"s1", "s2"}
NoResult == ""
NoEntry == ""
Bodies == {"ok", "empty", "badjson", "big", "readerr"}
NoReq == [signed |-> FALSE, sigOK |-> FALSE, body |-> "ok", text |-> "t1"]
NoResp == [status |-> 0, result |-> NoResult, receipt |-> 0, body |-> <<>>]
\* newBufferedWriter: status 200, nothing written
BwEmpty == [status |-> StatusOK, result |-> NoResult, receipt |-> 0, body |-> <<>>]
\* how a verifier call ends: the context deadline, a transport failure, a non-200
\* status, a body that does not decode, or a decoded VerifyResponse
VerifierErrors == {"e1", "e2"}
NoReply == [kind |-> "none", isValid |-> FALSE, error |-> ""]
VerifierFailure(kind) == [kind |-> kind, isValid |-> FALSE, error |-> ""]
VerifyResponse(valid, detail) == [kind |-> "reply", isValid |-> valid, error |-> detail]

NoGot == [id |-> 0, at |-> 0, found |-> FALSE, receipt |-> 0, issued |-> {}]

\* getCacheKey(text, model): a hash of version, text and model; the model is fixed
getCacheKey(text) == <<"v1", text, "model">>
CacheKeys == {getCacheKey(t) : t \in Texts}

\* json.Marshal of a map: the members in key order
JsonKeys == <<"details", "error", "paymentContext", "receipt", "result">>
RECURSIVE jsonMembers(_, _)
jsonMembers(m, i) ==
    IF i > Len(JsonKeys) THEN <<>>
    ELSE (IF JsonKeys[i] \in DOMAIN m THEN <<<<JsonKeys[i], m[JsonKeys[i]]>>>> ELSE <<>>)
         \o jsonMembers(m, i + 1)
jsonMarshal(m) == jsonMembers(m, 1)

\* c.JSON(code, obj) renders obj with the same encoder
cJSON(m) == jsonMarshal(m)

\* sha256 over the bytes, taken as collision-free
Hash(bytes) == <<"sha256", bytes>>

ErrorMap(status) == "error" :> ToString(status)

\* gin.H{"error": "Invalid Signature", "details": verifyResp.Error}
ForbiddenMap(detail) == ErrorMap(403) @@ ("details" :> detail)
ResponseMap(aiResult) == "result" :> aiResult

\* the map generateAndSendReceipt hands to c.JSON
SentMapWithReceipt(m, id) == m @@ ("receipt" :> ToString(id))
SentMap(m, id) == m

InitStoreState == rnow = 0 /\ got = NoGot /\ issued = {}

\* ---------------------------------------------------------- payment context
\* values of RECIPIENT_ADDRESS, PAYMENT_AMOUNT and CHAIN_ID; "" is unset
RecipientVars == {"", "0xR1"}
AmountVars == {"", "0.5"}
ChainVars == {"", "1", "x1"}
Envs == [RECIPIENT_ADDRESS : RecipientVars, PAYMENT_AMOUNT : AmountVars, CHAIN_ID : ChainVars]
NoEnv == [RECIPIENT_ADDRESS |-> "", PAYMENT_AMOUNT |-> "", CHAIN_ID |-> ""]

DefaultRecipient == "0x2cAF48b4BA1C58721a85dFADa5aC01C2DFa62219"
DefaultAmount == "0.001"
DefaultChainID == 8453

\* strconv.Atoi on the strings CHAIN_ID takes here
Atoi(s) == CASE s = "1" -> [ok |-> TRUE, v |-> 1]
             [] OTHER -> [ok |-> FALSE, v |-> 0]

getRecipientAddress(e) ==
    IF e.RECIPIENT_ADDRESS = "" THEN DefaultRecipient ELSE e.RECIPIENT_ADDRESS

getPaymentAmount(e) == IF e.PAYMENT_AMOUNT = "" THEN DefaultAmount ELSE e.PAYMENT_AMOUNT

getChainID(e) ==
    IF e.CHAIN_ID = "" THEN DefaultChainID
    ELSE IF ~Atoi(e.CHAIN_ID).ok THEN DefaultChainID ELSE Atoi(e.CHAIN_ID).v

\* uuid.New().String(): the n-th identifier drawn, taken as never repeating
Uuid(n) == <<"uuid", n>>

\* createPaymentContext, with the uuid it draws
createPaymentContextSameNonce(e, n) ==
    [recipient |-> getRecipientAddress(e), token |-> "USDC", amount |-> getPaymentAmount(e),
     nonce |-> Uuid(0), chainID |-> getChainID(e)]
createPaymentContext(e, n) ==
    [recipient |-> getRecipientAddress(e), token |-> "USDC", amount |-> getPaymentAmount(e),
     nonce |-> Uuid(n), chainID |-> getChainID(e)]

InitPaymentState == nextNonce = 0 /\ vlog = <<>>
InitPayment == InitPaymentState /\ env = NoEnv

\* the Redis store outlives the process: an entry may be there at start
InitPipeline ==
    /\ redisClient \in {"nil", "client"}
    /\ cache \in [CacheKeys -> {NoEntry} \cup Results]
    /\ storing = {}
    /\ receiptStore = {}
    /\ nextReceipt = 0
    /\ rpc = [r \in Reqs |-> "new"]
    /\ req = [r \in Reqs |-> NoReq]
    /\ path = [r \in Reqs |-> "none"]
    /\ cached = [r \in Reqs |-> NoEntry]
    /\ verdict = [r \in Reqs |-> "none"]
    /\ aiCalled = [r \in Reqs |-> FALSE]
    /\ summary = [r \in Reqs |-> NoResult]
    /\ resp = [r \in Reqs |-> NoResp]
    /\ closed = [r \in Reqs |-> FALSE]
    /\ bwr = [r \in Reqs |-> BwEmpty]
    /\ client = [r \in Reqs |-> NoResp]
    /\ lookup = [r \in Reqs |-> "none"]
    /\ started = [r \in Reqs |-> FALSE]
    /\ vreply = [r \in Reqs |-> NoReply]

IdlePipeline == InitPipeline /\ redisClient = "client" /\ cache = [k \in CacheKeys |-> NoEntry]

\* a write through c.Writer: the handler's view, and the guard's buffer unless closed
WriteResp(r, rec) ==
    /\ resp' = [resp EXCEPT ![r] = rec]
    /\ bwr' = IF closed[r] THEN bwr ELSE [bwr EXCEPT ![r] = rec]

\* c.JSON(status, error body) and the goroutine's next position
Reply(r, status, next) ==
    /\ WriteResp(r, [status |-> status, result |-> NoResult, receipt |-> 0,
                     body |-> cJSON(ErrorMap(status))])
    /\ rpc' = [rpc EXCEPT ![r] = next]

\* where an aborting CacheMiddleware and a returning handler go next
AfterHandler(r) == IF path[r] = "miss" THEN "after" ELSE "done"

\* a request arrives on POST /api/ai/summarize; the guard hands it on
Arrive(r) ==
    /\ rpc[r] = "new"
    /\ \E sg \in BOOLEAN, ok \in BOOLEAN, b \in Bodies, t \in Texts :
          req' = [req EXCEPT ![r] = [signed |-> sg, sigOK |-> sg /\ ok, body |-> b, text |-> t]]
    /\ rpc' = [rpc EXCEPT ![r] = "cm"]
    /\ UNCHANGED <<redisClient, cache, storing, receiptStore, nextReceipt, path, cached,
                   verdict, aiCalled, summary, resp>>
    /\ UNCHANGED xvars
    /\ UNCHANGED notPipeline

\* the status CacheMiddleware rejects the body with, 0 when it passes
CacheRejectsOversizeOnly(b) == CASE b = "big" -> 413 [] OTHER -> 0
CacheRejects(b) ==
    CASE b = "big" -> 413
      [] b = "readerr" -> 500
      [] b = "badjson" -> 400
      [] b = "empty" -> 400
      [] OTHER -> 0

\* CacheMiddleware, cache.go 28-108: up to the cache key
CacheEntry(r) ==
    /\ rpc[r] = "cm"
    /\ IF redisClient = "nil" \/ ~req[r].signed
       THEN /\ rpc' = [rpc EXCEPT ![r] = "handler"]
            /\ path' = [path EXCEPT ![r] = "bypass"]
            /\ UNCHANGED <<resp, bwr>>
       ELSE /\ path' = path
            /\ IF CacheRejects(req[r].body) # 0
               THEN Reply(r, CacheRejects(req[r].body), "done")
               ELSE rpc' = [rpc EXCEPT ![r] = "lookup"] /\ UNCHANGED <<resp, bwr>>
    /\ UNCHANGED <<redisClient, cache, storing, receiptStore, nextReceipt, req, cached,
                   verdict, aiCalled, summary>>
    /\ UNCHANGED <<closed, client, lookup, started>>
    /\ UNCHANGED notPipeline

\* what follows a getFromCache error: the miss path, or a 500
LookupErrorFails(r) == Reply(r, StatusInternalServerError, "done") /\ path' = path
LookupErrorIsMiss(r) ==
    /\ path' = [path EXCEPT ![r] = "miss"]
    /\ rpc' = [rpc EXCEPT ![r] = "handler"]
    /\ UNCHANGED <<resp, bwr>>

\* getFromCache returns an entry (hit), or an error: redis.Nil for an absent key,
\* a Redis failure, an entry that does not parse, a request context that is done
CacheLookup(r) ==
    /\ rpc[r] = "lookup"
    /\ LET k == getCacheKey(req[r].text)
       IN  \/ /\ cache[k] # NoEntry
              /\ ~closed[r]
              /\ cached' = [cached EXCEPT ![r] = cache[k]]
              /\ lookup' = [lookup EXCEPT ![r] = "hit"]
              /\ path' = [path EXCEPT ![r] = "hit"]
              /\ rpc' = [rpc EXCEPT ![r] = "verify"]
              /\ UNCHANGED <<resp, bwr>>
           \/ /\ cache[k] = NoEntry
              /\ ~closed[r]
              /\ cached' = cached
              /\ lookup' = [lookup EXCEPT ![r] = "absent"]
              /\ path' = [path EXCEPT ![r] = "miss"]
              /\ rpc' = [rpc EXCEPT ![r] = "handler"]
              /\ UNCHANGED <<resp, bwr>>
           \/ /\ cached' = cached
              /\ lookup' = [lookup EXCEPT ![r] = "error"]
              /\ LookupErrorIsMiss(r)
    /\ UNCHANGED <<redisClient, cache, storing, receiptStore, nextReceipt, req, verdict,
                   aiCalled, summary>>
    /\ UNCHANGED <<closed, client, started>>
    /\ UNCHANGED notPipeline

\* c.JSON(402, ...) with the challenge createPaymentContext() builds
PaymentRequired(r, next) ==
    /\ nextNonce' = nextNonce + 1
    /\ WriteResp(r, [status |-> 402, result |-> NoResult, receipt |-> 0,
                     body |-> cJSON(ErrorMap(402) @@
                                    ("paymentContext" :> createPaymentContext(env, nextNonce + 1)))])
    /\ rpc' = [rpc EXCEPT ![r] = next]

\* handleSummarize, part_008 239-273: header check and body read
HandlerStart(r) ==
    /\ rpc[r] = "handler"
    /\ CASE ~req[r].signed -> PaymentRequired(r, AfterHandler(r))
         [] path[r] = "bypass" /\ req[r].body = "big" ->
              Reply(r, 413, AfterHandler(r)) /\ nextNonce' = nextNonce
         [] path[r] = "bypass" /\ req[r].body = "readerr" ->
              Reply(r, 500, AfterHandler(r)) /\ nextNonce' = nextNonce
         [] OTHER -> rpc' = [rpc EXCEPT ![r] = "verify"] /\ UNCHANGED <<resp, bwr, nextNonce>>
    /\ UNCHANGED <<redisClient, cache, storing, receiptStore, nextReceipt, req, path, cached,
                   verdict, aiCalled, summary>>
    /\ UNCHANGED <<closed, client, lookup, started>>
    /\ UNCHANGED notHandler

\* what the verifier call can come back with; only errors once its context is done
VerifierResults(r) ==
    IF closed[r] THEN {VerifierFailure("timeout"), VerifierFailure("transport")}
    ELSE {VerifierFailure(k) : k \in {"timeout", "transport", "status", "decode"}}
         \cup (IF req[r].sigOK THEN {VerifyResponse(TRUE, "")}
               ELSE {VerifyResponse(FALSE, d) : d \in VerifierErrors})

\* errors.Is(err, context.DeadlineExceeded) on verifyPayment's error
IsDeadlineExceeded(v) == v.kind = "timeout"

\* how the callers of verifyPayment tell its results apart
Outcome(v) ==
    CASE v.kind # "reply" -> (IF IsDeadlineExceeded(v) THEN "timeout" ELSE "error")
      [] OTHER -> (IF v.isValid THEN "valid" ELSE "invalid")

\* what verifyPayment can return for the request
VerifyOutcomes(r) == {Outcome(v) : v \in VerifierResults(r)}

VerifyStatusNoTimeout(o) == CASE o = "timeout" -> 500 [] o = "error" -> 500 [] OTHER -> 403
VerifyStatus(o) == CASE o = "timeout" -> 504 [] o = "error" -> 500 [] OTHER -> 403

\* the error response for a verification that did not pass
VerifyReply(r, v, next) ==
    IF Outcome(v) = "invalid"
    THEN /\ WriteResp(r, [status |-> VerifyStatus(Outcome(v)), result |-> NoResult, receipt |-> 0,
                          body |-> cJSON(ForbiddenMap(v.error))])
         /\ rpc' = [rpc EXCEPT ![r] = next]
    ELSE Reply(r, VerifyStatus(Outcome(v)), next)

\* cache.go 117-132: the hit path goes on to serve
HitServesAnyReply(o) == o \in {"valid", "invalid"}
HitServes(o) == o = "valid"

\* part_008 277-290: the handler goes on to parse and call the AI service
HandlerProceedsAnyReply(o) == o \in {"valid", "invalid"}
HandlerProceeds(o) == o = "valid"

\* verifyPayment returns, on the hit path (cache.go 116) or in the handler (part_008 276)
Verify(r) ==
    /\ rpc[r] = "verify"
    /\ \E v \in VerifierResults(r) :
        LET o == Outcome(v)
        IN
          /\ vreply' = [vreply EXCEPT ![r] = v]
          /\ verdict' = [verdict EXCEPT ![r] = o]
          /\ IF path[r] = "hit"
             THEN IF HitServes(o)
                  THEN /\ summary' = [summary EXCEPT ![r] = cached[r]]
                       /\ rpc' = [rpc EXCEPT ![r] = "receipt"]
                       /\ UNCHANGED <<resp, bwr, aiCalled>>
                  ELSE /\ VerifyReply(r, v, "done")
                       /\ UNCHANGED <<summary, aiCalled>>
             ELSE IF HandlerProceeds(o)
                  THEN /\ summary' = summary
                       /\ CASE req[r].body = "badjson" ->
                                 Reply(r, 400, AfterHandler(r)) /\ aiCalled' = aiCalled
                            [] req[r].body = "empty" ->
                                 Reply(r, 400, AfterHandler(r)) /\ aiCalled' = aiCalled
                            [] OTHER ->
                                 /\ rpc' = [rpc EXCEPT ![r] = "ai"]
                                 /\ aiCalled' = [aiCalled EXCEPT ![r] = TRUE]
                                 /\ UNCHANGED <<resp, bwr>>
                  ELSE /\ VerifyReply(r, v, AfterHandler(r))
                       /\ UNCHANGED <<summary, aiCalled>>
    /\ UNCHANGED <<redisClient, cache, storing, receiptStore, nextReceipt, req, path, cached>>
    /\ UNCHANGED <<closed, client, lookup, started>>
    /\ UNCHANGED notVerify

\* callOpenRouter returns, part_008 306-314; an error once its context is done
CallAI(r) ==
    /\ rpc[r] = "ai"
    /\ \/ /\ ~closed[r]
          /\ \E s \in Results :
               /\ summary' = [summary EXCEPT ![r] = s]
               /\ rpc' = [rpc EXCEPT ![r] = "receipt"]
               /\ UNCHANGED <<resp, bwr>>
       \/ \E st \in {504, 500} : Reply(r, st, AfterHandler(r)) /\ summary' = summary
    /\ UNCHANGED <<redisClient, cache, storing, receiptStore, nextReceipt, req, path, cached,
                   verdict, aiCalled>>
    /\ UNCHANGED <<closed, client, lookup, started>>
    /\ UNCHANGED notPipeline

\* GenerateReceipt: a fresh id, the hash of the response bytes it is given
GenerateReceipt(id, r, responseBytes) ==
    [id |-> id, req |-> r, responseHash |-> Hash(responseBytes)]

\* storeReceipt: receiptStore[id] = entry with expiresAt = now + ttl
storeReceipt(store, receipt, t, life) ==
    {e \in store : e.receipt.id # receipt.id} \cup {[receipt |-> receipt, expiresAt |-> t + life]}

\* generateAndSendReceipt, part_008 389-423
SendReceipt(r) ==
    /\ rpc[r] = "receipt"
    /\ LET responseMap == ResponseMap(summary[r])
           receipt == GenerateReceipt(nextReceipt + 1, r, jsonMarshal(responseMap))
       IN  \/ \* encoding the body, GenerateReceipt or storeReceipt fails: 500, nothing stored
              /\ Reply(r, 500, AfterHandler(r))
              /\ UNCHANGED <<receiptStore, nextReceipt>>
           \/ \* the receipt is stored, encoding it for the header fails: 500
              /\ nextReceipt' = nextReceipt + 1
              /\ receiptStore' = storeReceipt(receiptStore, receipt, rnow, rttl)
              /\ Reply(r, 500, AfterHandler(r))
           \/ /\ nextReceipt' = nextReceipt + 1
              /\ receiptStore' = storeReceipt(receiptStore, receipt, rnow, rttl)
              /\ WriteResp(r, [status |-> 200, result |-> summary[r],
                               receipt |-> receipt.id,
                               body |-> cJSON(SentMap(responseMap, receipt.id))])
              /\ rpc' = [rpc EXCEPT ![r] = AfterHandler(r)]
    /\ UNCHANGED <<redisClient, cache, storing, req, path, cached, verdict, aiCalled, summary>>
    /\ UNCHANGED <<closed, client, lookup, started>>
    /\ UNCHANGED notPipeline

\* the status CacheMiddleware reads after c.Next(): the wrapped writer's Status()
StatusAfterNext(r) == bwr[r].status

\* CacheMiddleware after c.Next(), cache.go 164-183: start the asynchronous store
CacheAfter(r) ==
    /\ rpc[r] = "after"
    /\ IF StatusAfterNext(r) = 200 /\ resp[r].result # NoResult
       THEN /\ storing' = storing \cup {<<getCacheKey(req[r].text), resp[r].result>>}
            /\ started' = [started EXCEPT ![r] = TRUE]
       ELSE UNCHANGED <<storing, started>>
    /\ rpc' = [rpc EXCEPT ![r] = "done"]
    /\ UNCHANGED <<redisClient, cache, receiptStore, nextReceipt, req, path, cached, verdict,
                   aiCalled, summary, resp>>
    /\ UNCHANGED <<closed, bwr, client, lookup>>
    /\ UNCHANGED notPipeline

\* storeInCache in its goroutine: Set succeeds, or fails and is only logged
StoreInCache ==
    /\ \E kv \in storing :
          /\ storing' = storing \ {kv}
          /\ \/ cache' = [cache EXCEPT ![kv[1]] = kv[2]]
             \/ cache' = cache
    /\ UNCHANGED <<redisClient, receiptStore, nextReceipt, rpc, req, path, cached, verdict,
                   aiCalled, summary, resp>>
    /\ UNCHANGED xvars
    /\ UNCHANGED notPipeline

\* RequestTimeoutMiddleware around the route: case <-finished, flushTo
GuardFlush(r) ==
    /\ rpc[r] = "done"
    /\ client[r] = NoResp
    /\ client' = [client EXCEPT ![r] = bwr[r]]
    /\ UNCHANGED <<closed, bwr, lookup, started>>
    /\ UNCHANGED pvars
    /\ UNCHANGED notPipeline

\* RequestTimeoutMiddleware around the route: case <-ctx.Done(), the 504 response;
\* the handler goroutine runs on with a closed buffer and a context that is done
GuardTimeout(r) ==
    /\ rpc[r] # "new"
    /\ client[r] = NoResp
    /\ closed' = [closed EXCEPT ![r] = TRUE]
    /\ client' = [client EXCEPT ![r] = [status |-> StatusGatewayTimeout, result |-> NoResult,
                                        receipt |-> 0, body |-> <<TimeoutBody>>]]
    /\ UNCHANGED <<bwr, lookup, started>>
    /\ UNCHANGED pvars
    /\ UNCHANGED notPipeline

NextPipeline ==
    \/ \E r \in Reqs : Arrive(r)
    \/ \E r \in Reqs : CacheEntry(r)
    \/ \E r \in Reqs : CacheLookup(r)
    \/ \E r \in Reqs : HandlerStart(r)
    \/ \E r \in Reqs : Verify(r)
    \/ \E r \in Reqs : CallAI(r)
    \/ \E r \in Reqs : SendReceipt(r)
    \/ \E r \in Reqs : CacheAfter(r)
    \/ StoreInCache
    \/ \E r \in Reqs : GuardFlush(r)
    \/ \E r \in Reqs : GuardTimeout(r)


\* ============================================================= rate limiter
\* TokenBucket: NewTokenBucket(rpm, burst, cleanupTTL), Allow, AllowN.
\* Tokens are counted in units of 1/TokenUnit token, so that the refill of
\* rpm/60 tokens per second is rpm units per second.
Callers == 1 .. NCallers
TBKeys == {"k1", "k2"}
TokenUnit == 60
Capacity == Burst * TokenUnit
NoBucket == [tokens |-> -1, lastRefill |-> -1, lastAccess |-> -1, born |-> -1]
NoCall == [key |-> "k1", n |-> 0, fresh |-> FALSE]
NoRem == [key |-> "k1", value |-> -1, at |-> -1]
TTLs == 1 .. MaxTTL
NoLast == [before |-> 0, n |-> 0, ok |-> FALSE, after |-> 0]

Min(a, b) == IF a < b THEN a ELSE b

InitBucketState ==
    /\ clock = 0
    /\ buckets = [k \in TBKeys |-> NoBucket]
    /\ mu = [k \in TBKeys |-> 0]
    /\ cpc = [c \in Callers |-> "idle"]
    /\ call = [c \in Callers |-> NoCall]
    /\ avail = [c \in Callers |-> 0]
    /\ ncalls = 0
    /\ hist = [k \in TBKeys |-> <<>>]
    /\ last = [k \in TBKeys |-> NoLast]
    /\ rem = NoRem

InitBucket == InitBucketState /\ ttl = MaxTTL

\* a bucket created lazily on first use starts full
newBucketOneShort(t) ==
    [tokens |-> Capacity - TokenUnit, lastRefill |-> t, lastAccess |-> t, born |-> t]
newBucket(t) == [tokens |-> Capacity, lastRefill |-> t, lastAccess |-> t, born |-> t]

\* each key has its own bucket
getBucketShared(k) == IF buckets["k1"] = NoBucket THEN newBucket(clock) ELSE buckets["k1"]
getBucket(k) == IF buckets[k] = NoBucket THEN newBucket(clock) ELSE buckets[k]

\* the lazy refill: elapsed seconds times the rate, capped at capacity
refillUncapped(b, t) ==
    [b EXCEPT !.tokens = b.tokens + (t - b.lastRefill) * Rpm,
              !.lastRefill = t, !.lastAccess = t]
refill(b, t) ==
    [b EXCEPT !.tokens = Min(Capacity, b.tokens + (t - b.lastRefill) * Rpm),
              !.lastRefill = t, !.lastAccess = t]

\* the bucket's lock can be taken
NoLock(m) == TRUE
LockFree(m) == m = 0

\* all-or-nothing deduction of n tokens from what was found available
DeductPartial(a, n) == IF a >= n * TokenUnit THEN a - n * TokenUnit ELSE 0
Deduct(a, n) == IF a >= n * TokenUnit THEN a - n * TokenUnit ELSE a

Admits(a, n) == a >= n * TokenUnit

TickClock ==
    /\ clock < MaxTicks
    /\ clock' = clock + 1
    /\ UNCHANGED <<buckets, mu, cpc, call, avail, ncalls, hist, last, lvars>>
    /\ UNCHANGED notBucket

\* AllowN(key, n), first half: find or create the bucket, lock it, refill
AllowNBegin(c, k, n) ==
    /\ cpc[c] = "idle"
    /\ LockFree(mu[k])
    /\ LET b == refill(getBucket(k), clock)
       IN  /\ buckets' = [buckets EXCEPT ![k] = b]
           /\ avail' = [avail EXCEPT ![c] = b.tokens]
    /\ mu' = [mu EXCEPT ![k] = c]
    /\ cpc' = [cpc EXCEPT ![c] = "locked"]
    /\ call' = [call EXCEPT ![c] = [key |-> k, n |-> n, fresh |-> buckets[k] = NoBucket]]
    /\ ncalls' = ncalls + 1
    /\ UNCHANGED <<clock, hist, last, lvars>>
    /\ UNCHANGED notBucket

AllowNEnter(c, k, n) == ncalls < MaxCalls /\ AllowNBegin(c, k, n)

\* AllowN, second half: deduct if enough, unlock, return
AllowNExit(c) ==
    /\ cpc[c] = "locked"
    /\ LET k == call[c].key
           n == call[c].n
           ok == Admits(avail[c], n)
           after == Deduct(avail[c], n)
       IN  /\ buckets' = [buckets EXCEPT ![k].tokens = after]
           /\ hist' = [hist EXCEPT ![k] = Append(@, [ok |-> ok, n |-> n, by |-> c,
                                                     at |-> buckets[k].lastRefill,
                                                     fresh |-> call[c].fresh,
                                                     after |-> after])]
           /\ last' = [last EXCEPT ![k] = [before |-> buckets[k].tokens, n |-> n,
                                           ok |-> ok, after |-> after]]
           /\ mu' = [mu EXCEPT ![k] = 0]
    /\ cpc' = [cpc EXCEPT ![c] = "idle"]
    /\ UNCHANGED <<clock, call, avail, ncalls, lvars>>
    /\ UNCHANGED notBucket

NextBucket ==
    \/ TickClock
    \/ \E c \in Callers, k \in TBKeys, n \in 1 .. MaxN : AllowNEnter(c, k, n)
    \/ \E c \in Callers : AllowNExit(c)

\* ------------------------------------------- one caller, refill, sweep, remaining
\* wall-clock time passes between the calls
LimiterTick ==
    /\ clock < MaxIdle
    /\ \A c \in Callers : cpc[c] = "idle"
    /\ clock' = clock + 1
    /\ UNCHANGED <<buckets, mu, cpc, call, avail, ncalls, hist, last, lvars>>
    /\ UNCHANGED notBucket

\* Allow(key) is AllowN(key, 1)
LimiterAllow(k) == ncalls < MaxSeqCalls /\ AllowNBegin(1, k, 1)

Floor(units) == units \div TokenUnit

\* what GetRemaining leaves in the bucket map
RemainingTouches(k) == [buckets EXCEPT ![k] = refill(getBucket(k), clock)]
RemainingKeeps(k) == buckets

\* GetRemaining(key): the floor of the tokens available now
GetRemaining(k) ==
    /\ \A c \in Callers : cpc[c] = "idle"
    /\ LockFree(mu[k])
    /\ rem' = [key |-> k, value |-> Floor(refill(getBucket(k), clock).tokens), at |-> clock]
    /\ buckets' = RemainingKeeps(k)
    /\ UNCHANGED <<clock, mu, cpc, call, avail, ncalls, hist, last, ttl>>
    /\ UNCHANGED notBucket

\* a bucket the sweep removes: last access older than the TTL
StaleSinceCreation(b, t) == b # NoBucket /\ t - b.born > ttl
Stale(b, t) == b # NoBucket /\ t - b.lastAccess > ttl

\* the background sweep; a pass that finds nothing stale changes nothing
Cleanup ==
    /\ \A k \in TBKeys : mu[k] = 0
    /\ \E k \in TBKeys : Stale(buckets[k], clock)
    /\ buckets' = [k \in TBKeys |-> IF Stale(buckets[k], clock) THEN NoBucket ELSE buckets[k]]
    /\ UNCHANGED <<clock, mu, cpc, call, avail, ncalls, hist, last, lvars>>
    /\ UNCHANGED notBucket

RemainingAllowN(k, n) == ncalls < MaxRemCalls /\ AllowNBegin(1, k, n)

NextRemaining ==
    \/ LimiterTick
    \/ \E k \in TBKeys, n \in 1 .. MaxN : RemainingAllowN(k, n)
    \/ AllowNExit(1)
    \/ \E k \in TBKeys : GetRemaining(k)

NextLimiter ==
    \/ LimiterTick
    \/ \E k \in TBKeys : LimiterAllow(k)
    \/ AllowNExit(1)
    \/ Cleanup

\* ============================================================= receipt store

RTTLs == 0 .. MaxRTTL
ReceiptIds == 1 .. MaxReceipts

\* time.Time.After
After(t, u) == t > u

ReceiptTick ==
    /\ rnow < MaxRNow
    /\ rnow' = rnow + 1
    /\ UNCHANGED <<rttl, got, issued>>
    /\ UNCHANGED <<gvars, pvars, bvars, lvars, xvars, nextNonce, vreply, nvars>>

\* a served request issues its receipt: GenerateReceipt, then storeReceipt with the TTL
IssueReceipt ==
    /\ nextReceipt < MaxReceipts
    /\ \E s \in Results :
          LET receipt == GenerateReceipt(nextReceipt + 1, 1, jsonMarshal(ResponseMap(s)))
          IN  /\ receiptStore' = storeReceipt(receiptStore, receipt, rnow, rttl)
              /\ issued' = issued \cup {[receipt |-> receipt, at |-> rnow]}
    /\ nextReceipt' = nextReceipt + 1
    /\ UNCHANGED <<redisClient, cache, storing, rpc, req, path, cached, verdict, aiCalled,
                   summary, resp>>
    /\ UNCHANGED <<rnow, rttl, got>>
    /\ UNCHANGED <<gvars, bvars, lvars, xvars, nextNonce, vreply, nvars>>

\* getReceipt(id): the entry's receipt, unless absent or past its expiry
getReceipt(store, id, t) ==
    LET es == {e \in store : e.receipt.id = id}
    IN  IF es = {} THEN [found |-> FALSE, receipt |-> 0]
        ELSE LET entry == CHOOSE e \in es : TRUE
             IN  IF After(t, entry.expiresAt) THEN [found |-> FALSE, receipt |-> 0]
                 ELSE [found |-> TRUE, receipt |-> entry.receipt]

\* handleGetReceipt: GET /api/receipts/:id
GetReceipt(id) ==
    /\ got' = [id |-> id, at |-> rnow,
               found |-> getReceipt(receiptStore, id, rnow).found,
               receipt |-> getReceipt(receiptStore, id, rnow).receipt,
               issued |-> issued]
    /\ UNCHANGED <<rnow, rttl, issued>>
    /\ UNCHANGED <<gvars, pvars, bvars, lvars, xvars, nextNonce, vreply, nvars>>

\* the entries one pass of cleanupExpiredReceipts deletes
cleanupRemovesAtDeadline(entry, t) == t >= entry.expiresAt
cleanupRemoves(entry, t) == After(t, entry.expiresAt)

\* cleanupExpiredReceipts, on the ticker or at shutdown; a pass that deletes nothing is a stutter
CleanupExpiredReceipts ==
    /\ \E e \in receiptStore : cleanupRemoves(e, rnow)
    /\ receiptStore' = {e \in receiptStore : ~cleanupRemoves(e, rnow)}
    /\ UNCHANGED <<redisClient, cache, storing, nextReceipt, rpc, req, path, cached, verdict,
                   aiCalled, summary, resp>>
    /\ UNCHANGED svars
    /\ UNCHANGED <<gvars, bvars, lvars, xvars, nextNonce, vreply, nvars>>

NextReceipts ==
    \/ ReceiptTick
    \/ IssueReceipt
    \/ \E id \in ReceiptIds : GetReceipt(id)
    \/ CleanupExpiredReceipts

\* ================================================================== payment

\* the challenges issued so far
Challenges == {createPaymentContext(env, n) : n \in 1 .. nextNonce}

\* a 402 is answered: createPaymentContext draws a new nonce
Challenge ==
    /\ nextNonce < MaxChallenges
    /\ nextNonce' = nextNonce + 1
    /\ UNCHANGED <<env, vlog>>
    /\ UNCHANGED notPayment

\* what a client can sign: a challenge as issued, or one it has altered
Altered(c) == [c EXCEPT !.amount = "0"]
Sign(c) == [by |-> "payer", over |-> c]
Signatures == {Sign(c) : c \in Challenges} \cup {Sign(Altered(c)) : c \in Challenges}

\* the X-402-Nonce values a client can send: a challenge's nonce, or one of its own
OwnNonce == <<"own", 0>>
NonceHeaders == {c.nonce : c \in Challenges} \cup {OwnNonce}

\* verifyPayment, part_008 328-339: the PaymentContext and the VerifyRequest
verifyContextDefaultAmount(e, nonce) ==
    [recipient |-> getRecipientAddress(e), token |-> "USDC", amount |-> DefaultAmount,
     nonce |-> nonce, chainID |-> getChainID(e)]
verifyContext(e, nonce) ==
    [recipient |-> getRecipientAddress(e), token |-> "USDC", amount |-> getPaymentAmount(e),
     nonce |-> nonce, chainID |-> getChainID(e)]

VerifyRequest(e, signature, nonce) == [context |-> verifyContext(e, nonce), signature |-> signature]

\* the verifier: stateless, valid exactly when the signature is over the context sent
Verifier(vreq) ==
    IF vreq.signature.over = vreq.context THEN VerifyResponse(TRUE, "")
    ELSE VerifyResponse(FALSE, "e1")

\* whether the caller of verifyPayment lets the request pass
PaymentPassesOnce(v, nonce) ==
    Outcome(v) = "valid" /\ \A i \in 1 .. Len(vlog) : vlog[i].nonce # nonce
PaymentPasses(v, nonce) == Outcome(v) = "valid"

\* a signed request is verified: verifyPayment(ctx, signature, nonce) and its caller's decision
VerifyCall ==
    /\ Len(vlog) < MaxVerifyCalls
    /\ \E signature \in Signatures, nonce \in NonceHeaders :
          LET vreq == VerifyRequest(env, signature, nonce)
          IN  \E v \in {Verifier(vreq), VerifierFailure("transport")} :
                  vlog' = Append(vlog, [signature |-> signature, nonce |-> nonce,
                                        request |-> vreq, reply |-> v,
                                        passes |-> PaymentPasses(v, nonce)])
    /\ UNCHANGED <<env, nextNonce>>
    /\ UNCHANGED notPayment

NextPayment == Challenge \/ VerifyCall

\* =============================================================== rate limit

\* the headers and peer address RateLimitMiddleware reads
SignatureHeaders == {"", "s1", "fake"}
RateNonceHeaders == {"", "n1", "n2"}
ClientIPs == {"ip1", "ip2"}

Hex32(h) == <<"hex32", h>>

\* getRateLimitKey, part_008 608-621
getRateLimitKey(signature, nonce, ip) ==
    IF signature # "" /\ nonce # ""
    THEN [kind |-> "nonce:", id |-> Hex32(Hash(nonce))]
    ELSE [kind |-> "ip:", id |-> ip]

\* selectRateLimitTier, part_008 624-637
selectRateLimitTierBySignature(signature, nonce) ==
    IF signature # "" THEN "standard" ELSE "anonymous"
selectRateLimitTier(signature, nonce) ==
    IF signature # "" /\ nonce # "" THEN "standard" ELSE "anonymous"

Tiers == {"anonymous", "standard", "verified"}
RateKeys == {getRateLimitKey(s, n, ip) : s \in SignatureHeaders, n \in RateNonceHeaders, ip \in ClientIPs}

\* the signatures the verifier would accept; the limiter runs before any verification
Verifies(signature) == signature = "s1"

\* calculateRetryAfter, part_008 640-648
calculateRetryAfter(resetTime, t) == IF resetTime - t < 1 THEN 1 ELSE resetTime - t

\* GetResetTime: an estimate of when the bucket is full again
ResetTimes(t) == (t - 1) .. (t + MaxReset)

\* the handlers gin runs for POST /api/ai/summarize, main 171-194
Handlers == <<"RateLimitMiddleware", "RequestTimeoutMiddleware", "RequestTimeoutMiddleware.ai",
              "CacheMiddleware", "handleSummarize">>
Downstream == {"RequestTimeoutMiddleware", "RequestTimeoutMiddleware.ai", "CacheMiddleware",
               "handleSummarize", "cacheLookup", "verifyPayment", "callOpenRouter", "receipt"}

\* what each handler after the limiter does when it runs
Work(h) ==
    IF h = "CacheMiddleware" THEN <<h, "cacheLookup">>
    ELSE IF h = "handleSummarize" THEN <<h, "verifyPayment", "callOpenRouter", "receipt">>
    ELSE <<h>>

NoRq == [index |-> 0, signature |-> "", nonce |-> "", ip |-> "", key |-> [kind |-> "", id |-> ""],
         tier |-> "", ran |-> <<>>, status |-> 0, retryAfter |-> 0, reset |-> 0, at |-> 0]

\* gin: c.Abort() moves the handler index past every handler; the engine's
\* loop in c.Next() then advances it once more when the handler returns
AbortIndex == 63
ginAbortReturns(c) == c
ginAbort(c) == [c EXCEPT !.index = AbortIndex]
ginNext(c) == [c EXCEPT !.index = @ + 1]

InitRateState ==
    /\ rq = NoRq
    /\ tokens = [t \in Tiers |-> [k \in RateKeys |-> RateBurst]]
    /\ rtime = 0
    /\ served = 0
    /\ admits = [ip \in ClientIPs |-> 0]

\* gin starts the chain for a new request
RateArrive ==
    /\ rq.index = 0 \/ rq.index > Len(Handlers)
    /\ served < MaxRateReqs
    /\ \E s \in SignatureHeaders, n \in RateNonceHeaders, ip \in ClientIPs :
          rq' = [NoRq EXCEPT !.index = 1, !.signature = s, !.nonce = n, !.ip = ip]
    /\ served' = served + 1
    /\ UNCHANGED <<tokens, rtime, admits>>
    /\ UNCHANGED notRate

\* RateLimitMiddleware, part_008 576-605
RateLimitStep ==
    /\ rq.index = 1
    /\ LET key == getRateLimitKey(rq.signature, rq.nonce, rq.ip)
           tier == selectRateLimitTier(rq.signature, rq.nonce)
           c == [rq EXCEPT !.key = key, !.tier = tier, !.ran = Append(@, Handlers[1]), !.at = rtime]
       IN  IF tokens[tier][key] >= 1
           THEN /\ tokens' = [tokens EXCEPT ![tier][key] = @ - 1]
                /\ rq' = ginNext(c)
                /\ admits' = IF Verifies(rq.signature) THEN admits
                              ELSE [admits EXCEPT ![rq.ip] = @ + 1]
           ELSE /\ \E resetTime \in ResetTimes(rtime) :
                      rq' = ginNext(ginAbort([c EXCEPT !.status = 429, !.reset = resetTime,
                                   !.retryAfter = calculateRetryAfter(resetTime, rtime)]))
                /\ UNCHANGED <<tokens, admits>>
    /\ UNCHANGED <<rtime, served>>
    /\ UNCHANGED notRate

\* a handler after the limiter runs and either passes the request on or answers it
RunHandler ==
    /\ rq.index > 1 /\ rq.index <= Len(Handlers)
    /\ LET c == [rq EXCEPT !.ran = @ \o Work(Handlers[rq.index])]
       IN  \/ rq' = ginNext(c)
           \/ \E status \in {200, 504} : rq' = ginNext(ginAbort([c EXCEPT !.status = status]))
    /\ UNCHANGED <<tokens, rtime, served, admits>>
    /\ UNCHANGED notRate

\* a second passes: every bucket refills, up to its capacity
RateTick ==
    /\ rtime < MaxRateTime
    /\ rtime' = rtime + 1
    /\ tokens' = [t \in Tiers |-> [k \in RateKeys |->
                    IF tokens[t][k] < RateBurst THEN tokens[t][k] + 1 ELSE tokens[t][k]]]
    /\ admits' = [ip \in ClientIPs |-> 0]
    /\ UNCHANGED <<rq, served>>
    /\ UNCHANGED notRate

NextRate == RateArrive \/ RateLimitStep \/ RunHandler \/ RateTick

\* ======================================================= receipt validation

\* strings are kept as sequences of pieces, so that a prefix can be told
HasPrefix(s, p) == Len(s) >= 1 /\ s[1] = p

NilReceipt == [nil |-> TRUE]

\* a SignedReceipt as GenerateReceipt is meant to return it
GoodReceipt(n) ==
    [nil |-> FALSE, id |-> <<"rcpt_", ToString(n)>>, version |-> <<"1.0">>, timestamp |-> 1,
     payer |-> <<"0x", "P">>, recipient |-> <<"0x", "R">>, amount |-> <<"0.001">>,
     token |-> <<"USDC">>, nonce |-> <<"n">>, endpoint |-> <<"/api/ai/summarize">>,
     requestHash |-> <<"h1">>, responseHash |-> <<"h2">>,
     signature |-> <<"0x", "S">>, serverPublicKey |-> <<"0x", "K">>]

StringFields == {"id", "version", "payer", "recipient", "amount", "token", "nonce", "endpoint",
                 "requestHash", "responseHash", "signature", "serverPublicKey"}

\* a receipt with one required field left empty
Lacking(rc, f) == IF f = "timestamp" THEN [rc EXCEPT !.timestamp = 0] ELSE [rc EXCEPT ![f] = <<>>]

\* a receipt with a wrong prefix on its id, signature or public key
Misprefixed(rc, f) == [rc EXCEPT ![f] = <<"1x">> \o Tail(@)]

CandidateReceipts ==
    {NilReceipt}
    \cup {GoodReceipt(n) : n \in 1 .. MaxSends}
    \cup {Lacking(GoodReceipt(1), f) : f \in StringFields \cup {"timestamp"}}
    \cup {Misprefixed(GoodReceipt(1), f) : f \in {"id", "signature", "serverPublicKey"}}

NoErr == ""

\* validateReceipt, part_008 754-818
validateReceiptAnySignature(rc) ==
    IF rc.nil THEN "receipt is nil"
    ELSE IF rc.id = <<>> THEN "receipt ID is empty"
    ELSE IF ~HasPrefix(rc.id, "rcpt_") THEN "receipt ID must start with 'rcpt_'"
    ELSE IF rc.version = <<>> THEN "receipt version is empty"
    ELSE IF rc.timestamp = 0 THEN "receipt timestamp is zero"
    ELSE IF rc.payer = <<>> THEN "payer address is empty"
    ELSE IF rc.recipient = <<>> THEN "recipient address is empty"
    ELSE IF rc.amount = <<>> THEN "payment amount is empty"
    ELSE IF rc.token = <<>> THEN "token is empty"
    ELSE IF rc.nonce = <<>> THEN "nonce is empty"
    ELSE IF rc.endpoint = <<>> THEN "service endpoint is empty"
    ELSE IF rc.requestHash = <<>> THEN "request hash is empty"
    ELSE IF rc.responseHash = <<>> THEN "response hash is empty"
    ELSE IF rc.signature = <<>> THEN "signature is empty"
    ELSE IF rc.serverPublicKey = <<>> THEN "server public key is empty"
    ELSE IF ~HasPrefix(rc.serverPublicKey, "0x") THEN "server public key must start with '0x'"
    ELSE NoErr
validateReceipt(rc) ==
    IF rc.nil THEN "receipt is nil"
    ELSE IF rc.id = <<>> THEN "receipt ID is empty"
    ELSE IF ~HasPrefix(rc.id, "rcpt_") THEN "receipt ID must start with 'rcpt_'"
    ELSE IF rc.version = <<>> THEN "receipt version is empty"
    ELSE IF rc.timestamp = 0 THEN "receipt timestamp is zero"
    ELSE IF rc.payer = <<>> THEN "payer address is empty"
    ELSE IF rc.recipient = <<>> THEN "recipient address is empty"
    ELSE IF rc.amount = <<>> THEN "payment amount is empty"
    ELSE IF rc.token = <<>> THEN "token is empty"
    ELSE IF rc.nonce = <<>> THEN "nonce is empty"
    ELSE IF rc.endpoint = <<>> THEN "service endpoint is empty"
    ELSE IF rc.requestHash = <<>> THEN "request hash is empty"
    ELSE IF rc.responseHash = <<>> THEN "response hash is empty"
    ELSE IF rc.signature = <<>> THEN "signature is empty"
    ELSE IF ~HasPrefix(rc.signature, "0x") THEN "signature must start with '0x'"
    ELSE IF rc.serverPublicKey = <<>> THEN "server public key is empty"
    ELSE IF ~HasPrefix(rc.serverPublicKey, "0x") THEN "server public key must start with '0x'"
    ELSE NoErr

\* storeReceipt with its validation, part_008 736-751: the error and the index afterwards
storeValidated(store, rc, t, life) ==
    IF validateReceipt(rc) # NoErr
    THEN [err |-> "invalid receipt format", store |-> store]
    ELSE [err |-> NoErr, store |-> storeReceipt(store, rc, t, life)]

NoSend == [calls |-> 0, receipt |-> NilReceipt, before |-> {}, err |-> NoErr, status |-> 0,
           header |-> NilReceipt, result |-> NoResult]

InitIssueState == gs = NoSend

\* generateAndSendReceipt from the receipt GenerateReceipt returned, part_008 407-423
GenerateAndSend ==
    /\ gs.calls < MaxSends
    /\ \E rc \in CandidateReceipts, s \in Results :
          LET out == storeValidated(receiptStore, rc, rnow, rttl)
              made == [NoSend EXCEPT !.calls = gs.calls + 1, !.receipt = rc,
                                     !.before = receiptStore, !.err = out.err]
          IN  /\ receiptStore' = out.store
              /\ IF out.err # NoErr
                 THEN gs' = [made EXCEPT !.status = 500]
                 ELSE \/ gs' = [made EXCEPT !.status = 500]
                      \/ gs' = [made EXCEPT !.status = 200, !.header = rc, !.result = s]
    /\ UNCHANGED <<redisClient, cache, storing, nextReceipt, rpc, req, path, cached, verdict,
                   aiCalled, summary, resp>>
    /\ UNCHANGED notIssue

NextIssue == GenerateAndSend \/ ReceiptTick

\* ============================================================== signing key

KeyCallers == 1 .. NCallers

\* values of SERVER_WALLET_PRIVATE_KEY: unset, or a string with or without
\* the 0x prefix, hexadecimal or not, decoding to so many bytes, a scalar
\* crypto.ToECDSA accepts or not
UnsetKey == [set |-> FALSE, prefix |-> FALSE, hex |-> FALSE, bytes |-> 0, scalar |-> FALSE]
KeyEnvs ==
    {UnsetKey}
    \cup [set : {TRUE}, prefix : BOOLEAN, hex : {FALSE}, bytes : {0}, scalar : {FALSE}]
    \cup [set : {TRUE}, prefix : BOOLEAN, hex : {TRUE}, bytes : {30, 31, 32, 33}, scalar : BOOLEAN]

NilKey == <<"nil">>

\* the function passed to serverPrivateKeyOnce.Do, part_008 875-916: what it
\* leaves in serverPrivateKey and serverPrivateKeyErr on its n-th run
loadKey(e, n) ==
    IF ~e.set THEN [key |-> NilKey, err |-> "SERVER_WALLET_PRIVATE_KEY not set"]
    ELSE IF ~e.hex THEN [key |-> NilKey, err |-> "invalid private key format"]
    ELSE IF e.bytes < 31 THEN [key |-> NilKey, err |-> "private key too short"]
    ELSE IF e.bytes > 32 THEN [key |-> NilKey, err |-> "private key must be at most 32 bytes"]
    ELSE IF ~e.scalar THEN [key |-> NilKey, err |-> "failed to parse private key"]
    ELSE [key |-> <<"key", n>>, err |-> NoErr]

InitKeyState ==
    /\ once = [done |-> FALSE, m |-> 0]
    /\ skey = [key |-> NilKey, err |-> NoErr]
    /\ kc = [c \in KeyCallers |-> [pc |-> "idle", calls |-> 0]]
    /\ loads = 0
    /\ krets = {}

\* sync.Once: the done flag as Do reads it
onceNeverDone(o) == FALSE
onceIsDone(o) == o.done

KeyGoto(c, pc) == kc' = [kc EXCEPT ![c].pc = pc]

\* getServerPrivateKey is called
KeyCall(c) ==
    /\ kc[c].pc = "idle" /\ kc[c].calls < MaxKeyCalls
    /\ KeyGoto(c, "do")
    /\ UNCHANGED <<kenv, once, skey, loads, krets>>
    /\ UNCHANGED notKey

\* Once.Do: the fast path when done is set, else doSlow
OnceDo(c) ==
    /\ kc[c].pc = "do"
    /\ IF onceIsDone(once) THEN KeyGoto(c, "return") ELSE KeyGoto(c, "lock")
    /\ UNCHANGED <<kenv, once, skey, loads, krets>>
    /\ UNCHANGED notKey

\* doSlow: take the mutex, look at done again
OnceLock(c) ==
    /\ kc[c].pc = "lock" /\ once.m = 0
    /\ once' = [once EXCEPT !.m = c]
    /\ IF onceIsDone(once) THEN KeyGoto(c, "unlock") ELSE KeyGoto(c, "load")
    /\ UNCHANGED <<kenv, skey, loads, krets>>
    /\ UNCHANGED notKey

\* the loading function runs
KeyLoad(c) ==
    /\ kc[c].pc = "load"
    /\ loads' = loads + 1
    /\ skey' = loadKey(kenv, loads + 1)
    /\ KeyGoto(c, "done")
    /\ UNCHANGED <<kenv, once, krets>>
    /\ UNCHANGED notKey

\* doSlow's deferred store of done
OnceDone(c) ==
    /\ kc[c].pc = "done"
    /\ once' = [once EXCEPT !.done = TRUE]
    /\ KeyGoto(c, "unlock")
    /\ UNCHANGED <<kenv, skey, loads, krets>>
    /\ UNCHANGED notKey

OnceUnlock(c) ==
    /\ kc[c].pc = "unlock"
    /\ once' = [once EXCEPT !.m = 0]
    /\ KeyGoto(c, "return")
    /\ UNCHANGED <<kenv, skey, loads, krets>>
    /\ UNCHANGED notKey

\* return serverPrivateKey, serverPrivateKeyErr
KeyReturn(c) ==
    /\ kc[c].pc = "return"
    /\ krets' = krets \cup {skey}
    /\ kc' = [kc EXCEPT ![c] = [pc |-> "idle", calls |-> @.calls + 1]]
    /\ UNCHANGED <<kenv, once, skey, loads>>
    /\ UNCHANGED notKey

NextKey ==
    \E c \in KeyCallers :
        \/ KeyCall(c) \/ OnceDo(c) \/ OnceLock(c) \/ KeyLoad(c)
        \/ OnceDone(c) \/ OnceUnlock(c) \/ KeyReturn(c)

\* ========================================================== correlation ids

CorrReqs == 1 .. NCorr

\* values of the request's X-Correlation-ID header; NoHeader is absent or empty
NoHeader == <<>>
CorrHeaders == {NoHeader, <<"c1", 0>>}

\* a context.Context as the chain of its layers, innermost last
Background == <<>>
WithValue(ctx, key, val) == Append(ctx, [kind |-> "value", key |-> key, val |-> val])
WithTimeoutFromBackground(ctx) == Append(Background, [kind |-> "deadline", key |-> "", val |-> <<>>])
WithTimeout(ctx) == Append(ctx, [kind |-> "deadline", key |-> "", val |-> <<>>])

NoValue == [ok |-> FALSE, val |-> <<>>]

\* ctx.Value(key): the innermost layer that holds the key
RECURSIVE Value(_, _)
Value(ctx, key) ==
    IF ctx = <<>> THEN NoValue
    ELSE LET top == ctx[Len(ctx)]
         IN  IF top.kind = "value" /\ top.key = key THEN [ok |-> TRUE, val |-> top.val]
             ELSE Value(SubSeq(ctx, 1, Len(ctx) - 1), key)

correlationIDKey == "correlation_id"

NoForward == <<"none">>

\* a request: the header it came with, the gin context's keys, the request
\* context, the real writer's headers, what was put on the outgoing calls
NoCq == [pc |-> "new", header |-> NoHeader, keys |-> NoValue, ctx |-> Background, head |-> NoValue,
         toVerifier |-> NoForward, toUpstream |-> NoForward, sent |-> NoValue]

InitCorrState == cq = [r \in CorrReqs |-> NoCq] /\ cuuids = 0

CorrArrive(r) ==
    /\ cq[r].pc = "new"
    /\ \E h \in CorrHeaders : cq' = [cq EXCEPT ![r].header = h, ![r].pc = "correlation"]
    /\ UNCHANGED cuuids
    /\ UNCHANGED notCorr

\* CorrelationIDMiddleware, middleware.go 24-41
CorrelationIDMiddleware(r) ==
    /\ cq[r].pc = "correlation"
    /\ LET fresh == cq[r].header = NoHeader
           id == IF fresh THEN Uuid(cuuids + 1) ELSE cq[r].header
       IN  /\ cq' = [cq EXCEPT ![r].keys = [ok |-> TRUE, val |-> id],
                               ![r].ctx = WithValue(@, correlationIDKey, id),
                               ![r].head = [ok |-> TRUE, val |-> id],
                               ![r].pc = "limit"]
           /\ cuuids' = IF fresh THEN cuuids + 1 ELSE cuuids
    /\ UNCHANGED notCorr

\* RateLimitMiddleware answers 429 itself or passes the request on
CorrRateLimit(r) ==
    /\ cq[r].pc = "limit"
    /\ \/ cq' = [cq EXCEPT ![r].pc = "guard"]
       \/ cq' = [cq EXCEPT ![r].pc = "respond"]
    /\ UNCHANGED cuuids
    /\ UNCHANGED notCorr

\* the two RequestTimeoutMiddleware instances replace the request context, middleware.go 149-169
CorrGuards(r) ==
    /\ cq[r].pc = "guard"
    /\ \E first \in {cq[r].ctx, WithTimeout(cq[r].ctx)} :
          \E second \in {first, WithTimeout(first)} :
              cq' = [cq EXCEPT ![r].ctx = second, ![r].pc = "verify"]
    /\ UNCHANGED cuuids
    /\ UNCHANGED notCorr

\* the header verifyPayment and callOpenRouter put on their request, part_008 363-365, 503-505
Forwarded(ctx) == IF Value(ctx, correlationIDKey).ok THEN <<"id", Value(ctx, correlationIDKey).val>>
                  ELSE <<"unset">>

\* verifyPayment(c.Request.Context(), ...), from the handler or from the cache's hit path
CorrVerify(r) ==
    /\ cq[r].pc = "verify"
    /\ \/ cq' = [cq EXCEPT ![r].pc = "respond"]
       \/ \E next \in {"upstream", "respond"} :
             cq' = [cq EXCEPT ![r].toVerifier = Forwarded(cq[r].ctx), ![r].pc = next]
    /\ UNCHANGED cuuids
    /\ UNCHANGED notCorr

\* callOpenRouter(c.Request.Context(), ...)
CorrUpstream(r) ==
    /\ cq[r].pc = "upstream"
    /\ cq' = [cq EXCEPT ![r].toUpstream = Forwarded(cq[r].ctx), ![r].pc = "respond"]
    /\ UNCHANGED cuuids
    /\ UNCHANGED notCorr

\* the response leaves with the real writer's headers
CorrRespond(r) ==
    /\ cq[r].pc = "respond"
    /\ cq' = [cq EXCEPT ![r].sent = cq[r].head, ![r].pc = "done"]
    /\ UNCHANGED cuuids
    /\ UNCHANGED notCorr

NextCorr ==
    \E r \in CorrReqs :
        \/ CorrArrive(r) \/ CorrelationIDMiddleware(r) \/ CorrRateLimit(r) \/ CorrGuards(r)
        \/ CorrVerify(r) \/ CorrUpstream(r) \/ CorrRespond(r)

\* ============================================================= specifications

\* RECEIPT_TTL as configured
\* the state of the parts a specification leaves alone
\* ============================================================ nested guards
\* r.Use(RequestTimeoutMiddleware(getRequestTimeout())) and, on the AI group,
\* RequestTimeoutMiddleware(getAITimeout()): guard 1 runs guard 2 in its
\* goroutine, guard 2 runs the handler in its own.

Levels == 1 .. 2
NestTimeouts == 1 .. MaxNestTimeout
NestIdle == [ok |-> FALSE, d |-> 0, own |-> FALSE]
NewRealWriter == [head |-> NoHead, status |-> 0, body |-> <<>>, calls |-> 0]

\* c.Writer while guard L runs the rest of the chain, and the writer it keeps
shim(L) == IF L = 1 THEN "shim1" ELSE "shim2"
origWriterReal(L) == "real"
origWriter(L) == IF L = 1 THEN "real" ELSE "shim1"
ShimLevel(w) == IF w = "shim1" THEN 1 ELSE 2

\* bufferedWriter.flushTo on a responseWriterShim: Header().Add on the
\* buffer's map, then WriteHeader and Write, dropped by a closed buffer
flushToShim(b, o) ==
    LET o1 == [o EXCEPT !.head = [k \in HeaderKeys |-> o.head[k] \o b.head[k]]]
        o2 == bwWriteHeader(o1, flushToStatus(b))
    IN  IF o2.closed THEN o2 ELSE [o2 EXCEPT !.wrote = TRUE, !.buf = @ \o b.buf]

InitNestState ==
    /\ nnow = 0
    /\ nctx = [L \in Levels |-> NestIdle]
    /\ nerr = [L \in Levels |-> ""]
    /\ ng = [L \in Levels |-> "init"]
    /\ nh = [L \in Levels |-> "none"]
    /\ nbw = [L \in Levels |-> newBufferedWriter]
    /\ nreal = NewRealWriter
    /\ ncw = "real"
    /\ nfin = [L \in Levels |-> FALSE]
    /\ npan = [L \in Levels |-> NoPanic]
    /\ nhw = [status |-> StatusOK, head |-> NoHead, body |-> <<>>]
    /\ nops = 0

\* the same call on whichever writer w names
NestOn(w, BwOp(_), RwOp(_)) ==
    IF w = "real"
    THEN nreal' = RwOp(nreal) /\ nbw' = nbw
    ELSE nbw' = [nbw EXCEPT ![ShimLevel(w)] = BwOp(@)] /\ nreal' = nreal

\* cancelling a context cancels the contexts derived from it
Propagate(e, L, err) ==
    [M \in Levels |-> IF M >= L /\ e[M] = "" THEN err ELSE e[M]]

\* defer cancel() of guard L
NestAfterReturn(e, L) == IF nctx[L].own THEN Propagate(e, L, "Canceled") ELSE e

\* ctx.Done() of guard L is closed
NestCtxDone(L) == nerr[L] # ""

NestTick ==
    /\ nnow < MaxNestTime
    /\ ng[1] \in {"init", "RUNNING"}
    /\ nnow' = nnow + 1
    /\ UNCHANGED <<nctx, nerr, ng, nh, nbw, nreal, ncw, nfin, npan, nhw, nops>>
    /\ UNCHANGED notNest

\* lines 142-187 for guard L: guard 2 is entered by guard 1's goroutine
NestEnter(L) ==
    /\ ng[L] = "init"
    /\ L = 2 => nh[1] = "running"
    /\ \E t \in NestTimeouts :
          LET parent == IF L = 1 THEN NoDeadline ELSE [ok |-> nctx[1].ok, d |-> nctx[1].d]
              c == ChooseCtx(parent, t, nnow)
          IN  nctx' = [nctx EXCEPT ![L] = [ok |-> c[1].ok, d |-> c[1].d, own |-> c[2]]]
    /\ nerr' = [nerr EXCEPT ![L] = IF L = 1 THEN "" ELSE nerr[1]]
    /\ nbw' = [nbw EXCEPT ![L] = newBufferedWriter]
    /\ ncw' = shim(L)
    /\ nh' = [nh EXCEPT ![L] = "running"]
    /\ ng' = [ng EXCEPT ![L] = "RUNNING"]
    /\ UNCHANGED <<nnow, nreal, nfin, npan, nhw, nops>>
    /\ UNCHANGED notNest

\* the timer of the context guard L created; a context guard 2 took over from
\* guard 1 unchanged is guard 1's and ends with it
NestCtxTimer(L) ==
    /\ ng[L] # "init"
    /\ nctx[L].own
    /\ nerr[L] = ""
    /\ nnow >= nctx[L].d
    /\ nerr' = Propagate(nerr, L, "DeadlineExceeded")
    /\ UNCHANGED <<nnow, nctx, ng, nh, nbw, nreal, ncw, nfin, npan, nhw, nops>>
    /\ UNCHANGED notNest

\* the client goes away: the request's context and all below it are cancelled
NestCancel ==
    /\ ng[1] = "RUNNING"
    /\ nerr[1] = ""
    /\ nerr' = Propagate(nerr, 1, "Canceled")
    /\ UNCHANGED <<nnow, nctx, ng, nh, nbw, nreal, ncw, nfin, npan, nhw, nops>>
    /\ UNCHANGED notNest

NestHandlerCanAct == nh[2] = "running" /\ nops < MaxNestOps

NestHandlerWriteHeader ==
    /\ NestHandlerCanAct
    /\ \E code \in HandlerStatuses :
          /\ NestOn(ncw, LAMBDA b : bwWriteHeader(b, code), LAMBDA w : rwWriteHeader(w, code))
          /\ nhw' = [nhw EXCEPT !.status = code]
    /\ nops' = nops + 1
    /\ UNCHANGED <<nnow, nctx, nerr, ng, nh, ncw, nfin, npan>>
    /\ UNCHANGED notNest

NestHandlerWrite ==
    /\ NestHandlerCanAct
    /\ \E data \in Chunks :
          /\ NestOn(ncw, LAMBDA b : bwWrite(b, data), LAMBDA w : rwWrite(w, data))
          /\ nhw' = [nhw EXCEPT !.body = Append(@, data)]
    /\ nops' = nops + 1
    /\ UNCHANGED <<nnow, nctx, nerr, ng, nh, ncw, nfin, npan>>
    /\ UNCHANGED notNest

\* the handler returns: guard 2's goroutine closes finished
NestHandlerFinish ==
    /\ nh[2] = "running"
    /\ nh' = [nh EXCEPT ![2] = "done"]
    /\ nfin' = [nfin EXCEPT ![2] = TRUE]
    /\ UNCHANGED <<nnow, nctx, nerr, ng, nbw, nreal, ncw, npan, nhw, nops>>
    /\ UNCHANGED notNest

\* the handler panics: guard 2's goroutine offers the value on panicChan
NestHandlerPanic ==
    /\ nh[2] = "running"
    /\ \E p \in PanicVals : npan' = [npan EXCEPT ![2] = p]
    /\ nh' = [nh EXCEPT ![2] = "panicking"]
    /\ UNCHANGED <<nnow, nctx, nerr, ng, nbw, nreal, ncw, nfin, nhw, nops>>
    /\ UNCHANGED notNest

\* case <-finished of guard L: flush the buffer to the writer it kept
NestSelectFinished(L) ==
    /\ ng[L] = "RUNNING"
    /\ nfin[L]
    /\ NestOn(origWriter(L), LAMBDA o : flushToShim(nbw[L], o), LAMBDA w : flushTo(nbw[L], w))
    /\ ng' = [ng EXCEPT ![L] = "COMPLETED"]
    /\ nerr' = NestAfterReturn(nerr, L)
    /\ UNCHANGED <<nnow, nctx, nh, ncw, nfin, npan, nhw, nops>>
    /\ UNCHANGED notNest

\* case p := <-panicChan of guard L: restore the writer and panic again
NestSelectPanic(L) ==
    /\ ng[L] = "RUNNING"
    /\ nh[L] = "panicking"
    /\ ncw' = origWriter(L)
    /\ nh' = [nh EXCEPT ![L] = "gone"]
    /\ ng' = [ng EXCEPT ![L] = "PANICKED"]
    /\ nerr' = NestAfterReturn(nerr, L)
    /\ UNCHANGED <<nnow, nctx, nbw, nreal, nfin, npan, nhw, nops>>
    /\ UNCHANGED notNest

\* case <-ctx.Done() of guard L: close the buffer
NestSelectDone(L) ==
    /\ ng[L] = "RUNNING"
    /\ NestCtxDone(L)
    /\ nbw' = [nbw EXCEPT ![L].closed = TRUE]
    /\ ng' = [ng EXCEPT ![L] = "closing"]
    /\ UNCHANGED <<nnow, nctx, nerr, nh, nreal, ncw, nfin, npan, nhw, nops>>
    /\ UNCHANGED notNest

\* ... Header().Set and WriteHeader(504) on the writer it kept
NestTimeoutHeader(L) ==
    /\ ng[L] = "closing"
    /\ NestOn(origWriter(L),
              LAMBDA o : bwWriteHeader(bwHeaderSet(o, "Content-Type", TimeoutContentType),
                                       StatusGatewayTimeout),
              LAMBDA w : rwWriteHeader(rwHeaderSet(w, "Content-Type", TimeoutContentType),
                                       StatusGatewayTimeout))
    /\ ng' = [ng EXCEPT ![L] = "writing"]
    /\ UNCHANGED <<nnow, nctx, nerr, nh, ncw, nfin, npan, nhw, nops>>
    /\ UNCHANGED notNest

\* ... the body, and return
NestTimeoutBody(L) ==
    /\ ng[L] = "writing"
    /\ NestOn(origWriter(L), LAMBDA o : bwWrite(o, TimeoutBody), LAMBDA w : rwWrite(w, TimeoutBody))
    /\ ng' = [ng EXCEPT ![L] = "TIMED_OUT"]
    /\ nerr' = NestAfterReturn(nerr, L)
    /\ UNCHANGED <<nnow, nctx, nh, ncw, nfin, npan, nhw, nops>>
    /\ UNCHANGED notNest

\* guard 2 has returned: c.Next() returns in guard 1's goroutine, close(finished)
NestReturn ==
    /\ ng[2] \in {"COMPLETED", "TIMED_OUT"}
    /\ nh[1] = "running"
    /\ nh' = [nh EXCEPT ![1] = "done"]
    /\ nfin' = [nfin EXCEPT ![1] = TRUE]
    /\ UNCHANGED <<nnow, nctx, nerr, ng, nbw, nreal, ncw, npan, nhw, nops>>
    /\ UNCHANGED notNest

\* guard 2 has panicked again: guard 1's goroutine recovers and offers the value
NestUnwind ==
    /\ ng[2] = "PANICKED"
    /\ nh[1] = "running"
    /\ nh' = [nh EXCEPT ![1] = "panicking"]
    /\ npan' = [npan EXCEPT ![1] = npan[2]]
    /\ UNCHANGED <<nnow, nctx, nerr, ng, nbw, nreal, ncw, nfin, nhw, nops>>
    /\ UNCHANGED notNest

\* gin.Recovery above guard 1: c.AbortWithStatus(500) on whatever c.Writer is
NestRecovery ==
    /\ ng[1] = "PANICKED"
    /\ NestOn(ncw, LAMBDA b : bwWriteHeaderNow(bwWriteHeader(b, StatusInternalServerError)),
              LAMBDA w : rwWriteHeader(w, StatusInternalServerError))
    /\ ng' = [ng EXCEPT ![1] = "RECOVERED"]
    /\ UNCHANGED <<nnow, nctx, nerr, nh, ncw, nfin, npan, nhw, nops>>
    /\ UNCHANGED notNest

NextNested ==
    \/ NestTick
    \/ \E L \in Levels : NestEnter(L)
    \/ \E L \in Levels : NestCtxTimer(L)
    \/ NestCancel
    \/ NestHandlerWriteHeader
    \/ NestHandlerWrite
    \/ NestHandlerFinish
    \/ NestHandlerPanic
    \/ \E L \in Levels : NestSelectFinished(L)
    \/ \E L \in Levels : NestSelectPanic(L)
    \/ \E L \in Levels : NestSelectDone(L)
    \/ \E L \in Levels : NestTimeoutHeader(L)
    \/ \E L \in Levels : NestTimeoutBody(L)
    \/ NestReturn
    \/ NestUnwind
    \/ NestRecovery

\* ================================================================ cache keys
\* strings as sequences of characters; ":" is the separator getCacheKey uses
Alphabet == {"a", ":"}
Strings == UNION {[1 .. n -> Alphabet] : n \in 1 .. MaxStrLen}
\* req.Text is never empty here (cache.go 98-102), nor is the model (cache.go 105-108)
KeyTexts == Strings
ModelNames == Strings
\* the model the gateway starts with
DefaultModel == <<"a">>
cacheVersion == <<"v", "1">>

\* combined := cacheVersion + ":" + text + ":" + model
combined(text, model) == cacheVersion \o <<":">> \o text \o <<":">> \o model

\* getCacheKey(text, model) on character strings
getCacheKeyOf(text, model) == <<"ai:summary:", Hash(combined(text, model))>>

NoKgot == [text |-> <<>>, model |-> <<>>, found |-> FALSE, entry |-> <<>>]

InitModelState == kmodel = DefaultModel /\ kcache = {} /\ kgot = NoKgot

\* the gateway is restarted with another OPENROUTER_MODEL; Redis keeps its entries
SetModel ==
    /\ \E m \in ModelNames : m # kmodel /\ kmodel' = m
    /\ UNCHANGED <<kcache, kgot>>
    /\ UNCHANGED notModel

\* a miss answered with 200: storeInCache under the key of (text, model)
KeyStore ==
    /\ Cardinality(kcache) < MaxKeyStores
    /\ \E t \in KeyTexts :
          LET k == getCacheKeyOf(t, kmodel)
          IN  kcache' = {e \in kcache : e.key # k}
                            \cup {[key |-> k, text |-> t, model |-> kmodel]}
    /\ UNCHANGED <<kmodel, kgot>>
    /\ UNCHANGED notModel

\* getFromCache under the key of (text, model)
KeyLookup ==
    /\ \E t \in KeyTexts :
          LET es == {e \in kcache : e.key = getCacheKeyOf(t, kmodel)}
          IN  kgot' = IF es = {}
                      THEN [text |-> t, model |-> kmodel, found |-> FALSE, entry |-> <<>>]
                      ELSE [text |-> t, model |-> kmodel, found |-> TRUE,
                            entry |-> LET e == CHOOSE e \in es : TRUE
                                      IN  <<e.text, e.model>>]
    /\ UNCHANGED <<kmodel, kcache>>
    /\ UNCHANGED notModel

NextModel == SetModel \/ KeyStore \/ KeyLookup

\* ============================================================ receipt sweeper
InitSweepState == cleanupCtx = "" /\ mainpc = "serving" /\ sweeppc = "loop"

\* the process runs: time passes
SweepClock == mainpc # "exited" /\ ReceiptTick

\* a receipt is stored while the gateway serves; its expiry lies within the horizon
SweepIssue == mainpc = "serving" /\ rnow + rttl < MaxRNow /\ IssueReceipt

\* startReceiptCleanup, case <-ticker.C
TickerSweep == mainpc # "exited" /\ sweeppc = "loop" /\ CleanupExpiredReceipts

\* startReceiptCleanup, case <-ctx.Done()
SweepStop ==
    /\ mainpc # "exited"
    /\ sweeppc = "loop"
    /\ cleanupCtx # ""
    /\ sweeppc' = "stopped"
    /\ UNCHANGED <<cleanupCtx, mainpc>>
    /\ UNCHANGED <<pvars, svars>>
    /\ UNCHANGED notSweep

\* r.Run returns, main's deferred function starts: cleanupCancel()
Shutdown ==
    /\ mainpc = "serving"
    /\ cleanupCtx' = "Canceled"
    /\ mainpc' = "cancelled"
    /\ UNCHANGED sweeppc
    /\ UNCHANGED <<pvars, svars>>
    /\ UNCHANGED notSweep

\* ... cleanupExpiredReceipts(), and the process ends
FinalSweep ==
    /\ mainpc = "cancelled"
    /\ receiptStore' = {e \in receiptStore : ~cleanupRemoves(e, rnow)}
    /\ mainpc' = "exited"
    /\ UNCHANGED <<cleanupCtx, sweeppc>>
    /\ UNCHANGED <<redisClient, cache, storing, nextReceipt, rpc, req, path, cached, verdict,
                   aiCalled, summary, resp>>
    /\ UNCHANGED svars
    /\ UNCHANGED notSweep

NextSweep ==
    \/ SweepClock
    \/ SweepIssue
    \/ TickerSweep
    \/ SweepStop
    \/ Shutdown
    \/ FinalSweep

\* time passes, the ticker keeps firing, the deferred function runs to its end
FairSweep == WF_vars(SweepClock) /\ WF_vars(TickerSweep) /\ WF_vars(FinalSweep)

\* ====================================================== cache layer, end to end
\* one request, one behaviour of the verifier, of the AI service and of the
\* receipt step, served by the chain with CacheMiddleware and by handleSummarize
\* alone

Behaviours ==
    [verify : {"valid", "invalid", "timeout", "error"},
     ai : {"ok", "timeout", "error"},
     receipt : {"ok", "fail"},
     lookup : {"hit", "absent", "error"}]
Requests == [signed : BOOLEAN, body : Bodies]
NoTq == [signed |-> FALSE, body |-> "ok", verify |-> "none", ai |-> "none",
         receipt |-> "none", lookup |-> "none"]

\* callOpenRouter's error, part_008 306-314
AIStatus(a) == IF a = "timeout" THEN 504 ELSE 500

\* generateAndSendReceipt, part_008 389-423
ReceiptStatus(rc) == IF rc = "ok" THEN 200 ELSE 500

\* handleSummarize, part_008 236-322; haveBody: c.Get("request_body") exists
handleSummarize(q, haveBody) ==
    IF ~q.signed THEN 402
    ELSE IF ~haveBody /\ q.body = "big" THEN 413
    ELSE IF ~haveBody /\ q.body = "readerr" THEN 500
    ELSE IF ~HandlerProceeds(q.verify) THEN VerifyStatus(q.verify)
    ELSE IF q.body \in {"badjson", "empty"} THEN 400
    ELSE IF q.ai # "ok" THEN AIStatus(q.ai)
    ELSE ReceiptStatus(q.receipt)

\* CacheMiddleware with a Redis client, cache.go 26-183, then the handler
CacheMiddleware(q) ==
    IF ~q.signed THEN handleSummarize(q, FALSE)
    ELSE IF CacheRejects(q.body) # 0 THEN CacheRejects(q.body)
    ELSE IF q.lookup = "hit"
         THEN IF ~HitServes(q.verify) THEN VerifyStatus(q.verify)
              ELSE ReceiptStatus(q.receipt)
         ELSE handleSummarize(q, TRUE)

\* a status of 0: not served yet
InitRefineState == tq = NoTq /\ tst = [with |-> 0, alone |-> 0]

RefineArrive ==
    /\ tq = NoTq
    /\ \E q \in Requests, b \in Behaviours :
          tq' = [signed |-> q.signed, body |-> q.body, verify |-> b.verify, ai |-> b.ai,
                 receipt |-> b.receipt, lookup |-> b.lookup]
    /\ UNCHANGED tst
    /\ UNCHANGED notRefine

\* aiGroup.POST("/summarize", CacheMiddleware(), handleSummarize)
ServeWithCache ==
    /\ tq # NoTq
    /\ tst.with = 0
    /\ tst' = [tst EXCEPT !.with = CacheMiddleware(tq)]
    /\ UNCHANGED tq
    /\ UNCHANGED notRefine

\* aiGroup.POST("/summarize", handleSummarize)
ServeAlone ==
    /\ tq # NoTq
    /\ tst.alone = 0
    /\ tst' = [tst EXCEPT !.alone = handleSummarize(tq, FALSE)]
    /\ UNCHANGED tq
    /\ UNCHANGED notRefine

NextRefine == RefineArrive \/ ServeWithCache \/ ServeAlone

InitRest ==
    /\ InitRateState /\ InitIssueState /\ InitKeyState /\ kenv = UnsetKey /\ InitCorrState
    /\ InitNestState /\ InitRefineState /\ InitModelState /\ InitSweepState

InitRestKey ==
    /\ InitRateState /\ InitIssueState /\ InitKeyState /\ kenv \in KeyEnvs /\ InitCorrState
    /\ InitNestState /\ InitRefineState /\ InitModelState /\ InitSweepState

InitStore == InitStoreState /\ rttl = MaxRTTL /\ InitPayment /\ InitRest

Init == InitGuard /\ InitPipeline /\ InitBucket /\ InitStore

Spec == Init /\ [][NextPipeline]_vars

InitG == InitGuard /\ IdlePipeline /\ InitBucket /\ InitStore

SpecGuard == InitG /\ [][NextGuard]_vars

NextGuardOps == NextGuard \/ HandlerFlush \/ HandlerHijack

SpecGuardOps == InitG /\ [][NextGuardOps]_vars

SpecBucket == InitG /\ [][NextBucket]_vars

InitL == InitGuard /\ IdlePipeline /\ InitBucketState /\ ttl \in TTLs /\ InitStore

SpecLimiter == InitL /\ [][NextLimiter]_vars

SpecRemaining == InitG /\ [][NextRemaining]_vars

InitR ==
    /\ InitGuard /\ IdlePipeline /\ InitBucket /\ InitStoreState /\ rttl \in RTTLs
    /\ InitPayment /\ InitRest

SpecReceipts == InitR /\ [][NextReceipts]_vars

InitP ==
    /\ InitGuard /\ IdlePipeline /\ InitBucket /\ InitStoreState /\ rttl = MaxRTTL
    /\ InitPaymentState /\ env \in Envs /\ InitRest

InitRate == InitGuard /\ IdlePipeline /\ InitBucket /\ InitStore

SpecRate == InitRate /\ [][NextRate]_vars

SpecIssue == InitRate /\ [][NextIssue]_vars

InitK ==
    /\ InitGuard /\ IdlePipeline /\ InitBucket /\ InitStoreState /\ rttl = MaxRTTL
    /\ InitPayment /\ InitRestKey

SpecKey == InitK /\ [][NextKey]_vars

SpecCorr == InitRate /\ [][NextCorr]_vars

SpecNested == InitRate /\ [][NextNested]_vars

SpecRefine == InitRate /\ [][NextRefine]_vars

SpecModel == InitRate /\ [][NextModel]_vars

SpecSweepSafe == InitR /\ [][NextSweep]_vars

SpecSweep == SpecSweepSafe /\ FairSweep

SpecPayment == InitP /\ [][NextPayment]_vars

\* goroutines that can run do run, timers fire, the clock advances
FairGuard ==
    /\ WF_vars(Tick)
    /\ WF_vars(GuardEnter)
    /\ WF_vars(CtxTimer)
    /\ WF_vars(SelectFinished \/ SelectPanic \/ SelectDone)
    /\ WF_vars(TimeoutResponse)

SpecGuardFair == SpecGuard /\ FairGuard

\* the handler's downstream calls return, also on cancellation: it finishes or panics
FairHandler == WF_vars(HandlerFinish \/ HandlerPanic)

SpecGuardCoop == SpecGuard /\ FairGuard /\ FairHandler

\* ---------------------------------------------------------------- guard claims
Untouched == [head |-> origHead0, status |-> 0, body |-> <<>>, calls |-> 0]

Expected504 ==
    [head |-> [origHead0 EXCEPT !["Content-Type"] = <<TimeoutContentType>>],
     status |-> StatusGatewayTimeout, body |-> <<TimeoutBody>>, calls |-> 1]

TerminalStays == (guard \in Terminal) => (guard' = guard)

\* C4: a guarded request ends in one of COMPLETED, TIMED_OUT, PANICKED, stays
\* there, and the real writer never gets both the flushed handler response and
\* the 504 timeout response.
C4_OneTerminalOutcome ==
    /\ [][TerminalStays]_vars
    /\ [](~(flushed /\ sent504))
    /\ [](flushed => guard = "COMPLETED")
    /\ [](sent504 => guard = "TIMED_OUT")
    /\ <>(guard \in Terminal)

C4_Witness ==
    /\ guard = "TIMED_OUT"
    /\ finished
    /\ ctxErr = "DeadlineExceeded"
    /\ sent504

MinDeadline(p, x) == IF p.ok /\ p.d < x THEN p.d ELSE x

\* C6: for timeout > 0 the handler's ctx deadline is min(deadline the request
\* already carried, now + timeout).
C6_DeadlineIsMin ==
    (guard # "init" /\ timeout > 0) =>
        /\ ctxDeadline.ok
        /\ ctxDeadline.d = MinDeadline(parentDeadline, entryNow + timeout)
        /\ ctxDeadline.d <= entryNow + timeout
        /\ parentDeadline.ok => ctxDeadline.d <= parentDeadline.d

C6_Witness ==
    /\ guard # "init"
    /\ timeout > 0
    /\ parentDeadline.ok
    /\ parentDeadline.d < entryNow + timeout
    /\ ctxDeadline = parentDeadline

Served(r) == resp[r].result # NoResult
ReceiptsOf(r) == {x \in receiptStore : x.receipt.req = r}

\* C1: on a cache hit the cached result is written (200, result, receipt) only
\* once verifyPayment has returned is_valid=true for that request; a hit whose
\* verification says invalid answers 403 and never writes the cached result.
C1_HitServedOnlyVerified ==
    \A r \in Reqs :
        path[r] = "hit" =>
            /\ (Served(r) \/ rpc[r] = "receipt") => verdict[r] = "valid"
            /\ Served(r) => /\ resp[r].status = 200
                            /\ resp[r].result = cached[r]
                            /\ resp[r].receipt # 0
            /\ verdict[r] = "invalid" => /\ resp[r].status = 403
                                         /\ ~Served(r)
                                         /\ rpc[r] = "done"

C1_Witness ==
    \E r1, r2 \in Reqs :
        /\ path[r1] = "hit" /\ Served(r1) /\ verdict[r1] = "valid"
        /\ path[r2] = "hit" /\ verdict[r2] = "invalid" /\ resp[r2].status = 403

\* C2: in one summarize request the verifier call has returned valid before the
\* upstream AI call starts, before a result body is written and before a
\* receipt is generated or stored; after a negative or failed verification none
\* of the three happens.
C2_VerifyPrecedes ==
    \A r \in Reqs :
        /\ (\/ aiCalled[r]
            \/ rpc[r] \in {"ai", "receipt"}
            \/ Served(r)
            \/ resp[r].receipt # 0
            \/ ReceiptsOf(r) # {}) => verdict[r] = "valid"
        /\ verdict[r] \in {"invalid", "timeout", "error"} =>
              /\ ~aiCalled[r]
              /\ ~Served(r)
              /\ ReceiptsOf(r) = {}
              /\ resp[r].status = VerifyStatus(verdict[r])

C2_Witness ==
    \E r1, r2 \in Reqs :
        /\ path[r1] = "miss" /\ aiCalled[r1] /\ Served(r1) /\ ReceiptsOf(r1) # {}
        /\ path[r2] \in {"miss", "bypass"} /\ verdict[r2] = "invalid" /\ rpc[r2] = "done"

\* --------------------------------------------------------- rate limiter claims
NoTimeElapsed(k) == buckets[k] # NoBucket /\ clock = buckets[k].born
AllSingle(k) == \A i \in 1 .. Len(hist[k]) : hist[k][i].n = 1
Quiet(k) == \A c \in Callers : cpc[c] = "locked" => call[c].key # k
AdmittedCount(k) == Cardinality({i \in 1 .. Len(hist[k]) : hist[k][i].ok})

\* C8: concurrent callers that issue more than Burst Allow calls on one fresh
\* key with no time elapsed get exactly Burst admissions, in every interleaving.
C8_ExactlyBurstAdmitted ==
    \A k \in TBKeys :
        (NoTimeElapsed(k) /\ AllSingle(k)) =>
            /\ AdmittedCount(k) <= Burst
            /\ (Quiet(k) /\ Len(hist[k]) > Burst) => AdmittedCount(k) = Burst

C8_Witness ==
    \E k \in TBKeys :
        /\ NoTimeElapsed(k) /\ AllSingle(k) /\ Quiet(k)
        /\ Len(hist[k]) > Burst
        /\ \E i, j \in 1 .. Len(hist[k]) : hist[k][i].by # hist[k][j].by
        /\ AdmittedCount(k) = Burst

\* C9: on a never-used key with no time elapsed the first Burst Allow calls
\* return true and the next one returns false.
C9_BurstThenDeny ==
    \A k \in TBKeys :
        (NoTimeElapsed(k) /\ AllSingle(k)) =>
            \A i \in 1 .. Len(hist[k]) : hist[k][i].ok <=> (i <= Burst)

C9_Witness ==
    \E k \in TBKeys :
        /\ NoTimeElapsed(k) /\ AllSingle(k)
        /\ Len(hist[k]) = Burst + 1
        /\ \A i \in 1 .. Len(hist[k]) : hist[k][i].by = 1
        /\ ~hist[k][Burst + 1].ok

\* C10: AllowN(key, n) returns true and deducts exactly n tokens when n are
\* available, and otherwise returns false and leaves the tokens unchanged.
C10_AllOrNothing ==
    \A k \in TBKeys :
        hist[k] # <<>> =>
            LET l == last[k]
            IN  /\ l.before >= l.n * TokenUnit => (l.ok /\ l.after = l.before - l.n * TokenUnit)
                /\ l.before < l.n * TokenUnit => (~l.ok /\ l.after = l.before)
                /\ buckets[k].tokens >= 0

C10_Witness ==
    \E k \in TBKeys :
        /\ hist[k] # <<>>
        /\ last[k].n > 1
        /\ ~last[k].ok
        /\ last[k].before > 0
        /\ buckets[k].tokens = last[k].before

\* ------------------------------------------------------------ limiter claims
\* the calls on k since its present bucket was created
FreshAt(k) == {i \in 1 .. Len(hist[k]) : hist[k][i].fresh}
LastFresh(k) == CHOOSE i \in FreshAt(k) : \A j \in FreshAt(k) : j <= i
Life(k) == IF FreshAt(k) = {} THEN <<>> ELSE SubSeq(hist[k], LastFresh(k), Len(hist[k]))
LifeAdmitted(k) == Cardinality({i \in 1 .. Len(Life(k)) : Life(k)[i].ok})
Exhausted(k) == buckets[k] # NoBucket /\ buckets[k].tokens < TokenUnit

OtherKeyStep(k) == \E c \in Callers : cpc'[c] # cpc[c] /\ call'[c].key # k

\* C11: a call on one key leaves every other key's bucket and results as they
\* were, and a key used for the first time admits its full burst whatever the
\* state of the other key, an exhausted one included.
C11_KeysIndependent ==
    /\ [][\A k \in TBKeys : OtherKeyStep(k) =>
              (buckets'[k] = buckets[k] /\ hist'[k] = hist[k] /\ last'[k] = last[k])]_vars
    /\ [](\A k \in TBKeys :
             (NoTimeElapsed(k) /\ Quiet(k)) =>
                 LifeAdmitted(k) = Min(Len(Life(k)), Burst))

C11_Witness ==
    \E a, b \in TBKeys :
        /\ a # b
        /\ Exhausted(a) /\ Len(Life(a)) > Burst
        /\ NoTimeElapsed(b) /\ Quiet(b)
        /\ buckets[a].lastAccess <= buckets[b].born
        /\ Len(Life(b)) = Burst
        /\ LifeAdmitted(b) = Burst

\* call i left k's bucket empty and calls i+1 .. j are the next calls on k,
\* Allow calls made at one instant
IdleRunOnKey(k, i, j) ==
    /\ i < j
    /\ hist[k][i].after = 0
    /\ \A m \in i + 1 .. j : hist[k][m].at = hist[k][j].at /\ hist[k][m].n = 1

\* ... and they found the bucket that call i left: no sweep removed it meanwhile
IdleRun(k, i, j) == IdleRunOnKey(k, i, j) /\ \A m \in i + 1 .. j : ~hist[k][m].fresh
Refilled(k, i, j) == Min(Burst, ((hist[k][j].at - hist[k][i].at) * Rpm) \div TokenUnit)

RECURSIVE TokensAdmitted(_)
TokensAdmitted(h) ==
    IF h = <<>> THEN 0
    ELSE TokensAdmitted(Tail(h)) + (IF Head(h).ok THEN Head(h).n ELSE 0)

\* the tokens of k available at the clock's time, in units
AvailableNow(k) ==
    IF buckets[k] = NoBucket THEN Capacity
    ELSE Min(Capacity, buckets[k].tokens + (clock - buckets[k].lastRefill) * Rpm)

\* C13: GetRemaining(key) returns the floor of the tokens available now, the
\* full burst for a never-used key and the burst less the tokens admitted when
\* no time has elapsed, and it leaves the buckets, and so every later result,
\* as they were.
C13_RemainingPure ==
    [][rem' # rem =>
          LET k == rem'.key
              v == rem'.value
          IN  /\ v * TokenUnit <= AvailableNow(k)
              /\ AvailableNow(k) < (v + 1) * TokenUnit
              /\ buckets[k] = NoBucket => v = Burst
              /\ NoTimeElapsed(k) => v = Burst - TokensAdmitted(hist[k])
              /\ buckets' = buckets
              /\ hist' = hist]_vars

C13_Witness ==
    \E k \in TBKeys :
        /\ rem.key = k /\ rem.at = clock
        /\ NoTimeElapsed(k) /\ Quiet(k)
        /\ TokensAdmitted(hist[k]) > 0
        /\ rem.value = Burst - TokensAdmitted(hist[k])
        /\ buckets[k].tokens = rem.value * TokenUnit

Removed(k) == buckets[k] # NoBucket /\ buckets'[k] = NoBucket
IdleLongerThanTTL(k) == buckets[k] # NoBucket /\ clock - buckets[k].lastAccess > ttl
FirstUse(c) == cpc[c] = "idle" /\ cpc'[c] = "locked" /\ buckets[call'[c].key] = NoBucket

\* C14: a sweep removes exactly the buckets whose last access is older than
\* the TTL, never one accessed within the TTL, and the next call on a removed
\* key finds a new, full bucket, as on a never-used key.
C14_SweepByTTL ==
    /\ [][\A k \in TBKeys : Removed(k) => IdleLongerThanTTL(k)]_vars
    /\ [][(\E k \in TBKeys : Removed(k)) =>
              \A k \in TBKeys : IdleLongerThanTTL(k) => buckets'[k] = NoBucket]_vars
    /\ [][\A c \in Callers : FirstUse(c) =>
              /\ avail'[c] = Capacity
              /\ buckets'[call'[c].key] = newBucket(clock)]_vars

C14_Witness ==
    \E k \in TBKeys :
        /\ Cardinality(FreshAt(k)) = 2
        /\ Quiet(k)
        /\ LET f == LastFresh(k)
           IN  /\ hist[k][f - 1].after = 0
               /\ (hist[k][f].at - hist[k][f - 1].at) * Rpm < Capacity
               /\ hist[k][f].ok
               /\ hist[k][f].after = Capacity - TokenUnit

\* ------------------------------------------------------------- receipts

\* the request is over: its goroutine has returned and the client has its response
Settled(r) == rpc[r] = "done" /\ client[r] # NoResp
ClientGotReceipt(r) == client[r].status = 200 /\ client[r].receipt # 0

\* C15: a receipt is in the store for a request exactly when the response the
\* client sees is a 200 carrying the X-402-Receipt header, and then there is
\* exactly one; a request whose client-visible response is not 200 leaves none.
C15_ReceiptIffOK ==
    \A r \in Reqs :
        Settled(r) =>
            /\ ReceiptsOf(r) # {} <=> ClientGotReceipt(r)
            /\ Cardinality(ReceiptsOf(r)) <= 1

IssuedAs(id) == {x \in got.issued : x.receipt.id = id}

\* C17: getReceipt(id) returns the stored receipt, unmodified, exactly when a
\* receipt with that id was stored and the lookup time is not past its expiry
\* (store time plus TTL), and not-found otherwise; the answer is the same
\* whether or not a sweep has run.
C17_LookupUntilExpiry ==
    got.id # 0 =>
        /\ got.found <=> \E x \in IssuedAs(got.id) : got.at <= x.at + rttl
        /\ got.found => \E x \in IssuedAs(got.id) : got.receipt = x.receipt
        /\ ~got.found => got.receipt = 0

\* found at the very expiry instant, after a sweep has removed another receipt
C17_Witness ==
    /\ got.found
    /\ \E x \in IssuedAs(got.id) : got.at = x.at + rttl /\ got.receipt = x.receipt
    /\ \E y \in got.issued : \A e \in receiptStore : e.receipt.id # y.receipt.id

\* ------------------------------------------------------------- cache

\* C18: on a cache miss, a cache write is started exactly when the final
\* client-visible status is 200; a request whose client-visible response is a
\* 4xx or 5xx never populates the cache.
C18_StoreIffOK ==
    \A r \in Reqs :
        (Settled(r) /\ path[r] = "miss") => (started[r] <=> client[r].status = 200)

\* the handler path a request takes once it is past the lookup
OnMissPath(r) ==
    /\ path'[r] = "miss"
    /\ rpc'[r] = "handler"
    /\ cached'[r] = NoEntry
    /\ resp'[r] = resp[r] /\ bwr'[r] = bwr[r] /\ client'[r] = client[r]
    /\ verdict'[r] = "none" /\ ~aiCalled'[r]

\* a step of the asynchronous store, whichever way it ends
StoreStep == storing' # storing /\ storing' \subseteq storing

\* without a Redis client the request goes straight to the handler
PastCacheUntouched(r) ==
    /\ rpc'[r] = "handler"
    /\ lookup'[r] = "none"
    /\ resp'[r] = resp[r] /\ bwr'[r] = bwr[r] /\ client'[r] = client[r]

\* C19: a cache backend failure never changes a request's outcome: a lookup
\* error sends the request down exactly the path of a miss, and an error or
\* timeout in the asynchronous store leaves every response as it is and
\* surfaces no error; with no cache backend at all the handler runs as usual.
C19_CacheSoftFail ==
    /\ [][\A r \in Reqs :
             (redisClient = "nil" /\ rpc[r] = "cm" /\ rpc'[r] # "cm") => PastCacheUntouched(r)]_vars
    /\ [][\A r \in Reqs :
             (lookup'[r] # lookup[r] /\ lookup'[r] \in {"absent", "error"}) => OnMissPath(r)]_vars
    /\ [][StoreStep => UNCHANGED <<resp, bwr, client, rpc, path, receiptStore>>]_vars

\* a request whose lookup failed was served a 200 like a miss, and a store of
\* its result has ended without the entry being written
C19_Witness ==
    \E r \in Reqs :
        /\ lookup[r] = "error"
        /\ path[r] = "miss"
        /\ client[r].status = 200
        /\ started[r]
        /\ storing = {}
        /\ cache[getCacheKey(req[r].text)] # client[r].result

\* a signed request with a body CacheMiddleware must reject, caching enabled
Rejectable(r) ==
    /\ redisClient = "client"
    /\ rpc[r] # "new"
    /\ req[r].signed
    /\ req[r].body \in {"big", "badjson", "empty"}

RejectStatus(r) == IF req[r].body = "big" THEN 413 ELSE 400

\* no cache key, lookup, verifier call or upstream call was made for the request
NothingDone(r) ==
    /\ path[r] = "none"
    /\ lookup[r] = "none"
    /\ cached[r] = NoEntry
    /\ verdict[r] = "none"
    /\ ~aiCalled[r]
    /\ ~started[r]
    /\ ReceiptsOf(r) = {}

\* C20: with caching enabled, a signed request whose body is over the ceiling
\* is answered 413 and one whose body is not valid JSON or has empty text is
\* answered 400 by CacheMiddleware, which aborts it before any cache key is
\* computed and before any cache lookup, verifier call or upstream call; the
\* client gets that answer unless the guard's deadline has replaced it by 504.
C20_RejectBeforeCache ==
    \A r \in Reqs :
        Rejectable(r) =>
            /\ NothingDone(r)
            /\ rpc[r] \in {"cm", "done"}
            /\ rpc[r] = "done" => resp[r].status = RejectStatus(r)
            /\ (client[r] # NoResp /\ ~closed[r]) => client[r].status = RejectStatus(r)

C20_Witness ==
    \E r1, r2 \in Reqs :
        /\ Rejectable(r1) /\ req[r1].body = "big" /\ client[r1].status = 413
        /\ Rejectable(r2) /\ req[r2].body \in {"badjson", "empty"} /\ client[r2].status = 400

\* ------------------------------------------------------------- payment

HasField(body, key) == \E i \in 1 .. Len(body) : body[i][1] = key
BodyField(body, key) == body[CHOOSE i \in 1 .. Len(body) : body[i][1] = key][2]

\* the request came without X-402-Signature or without X-402-Nonce
Unsigned(r) == rpc[r] # "new" /\ ~req[r].signed

\* a 402 whose body carries a payment context
IsChallenge(rec) == rec.status = 402 /\ HasField(rec.body, "paymentContext")
ChallengeNonce(rec) == BodyField(rec.body, "paymentContext").nonce

\* C21: a summarize request lacking the signature or the nonce header is
\* answered 402 with a paymentContext whose nonce is freshly generated (no
\* other challenge carries it), and no verifier call, cache lookup, upstream
\* call or receipt issuance happens for it; the client gets that answer unless
\* the guard's deadline has replaced it by 504.
C21_UnsignedGets402 ==
    /\ \A r \in Reqs :
          Unsigned(r) =>
              /\ lookup[r] = "none" /\ cached[r] = NoEntry /\ ~started[r]
              /\ verdict[r] = "none"
              /\ ~aiCalled[r]
              /\ ReceiptsOf(r) = {}
              /\ rpc[r] \in {"cm", "handler", "done"}
              /\ rpc[r] = "done" => IsChallenge(resp[r])
              /\ (client[r] # NoResp /\ ~closed[r]) => client[r] = resp[r] /\ IsChallenge(client[r])
    /\ \A r1, r2 \in Reqs :
          (r1 # r2 /\ IsChallenge(resp[r1]) /\ IsChallenge(resp[r2])) =>
              ChallengeNonce(resp[r1]) # ChallengeNonce(resp[r2])

C21_Witness ==
    \E r1, r2 \in Reqs :
        /\ r1 # r2
        /\ Unsigned(r1) /\ Unsigned(r2)
        /\ IsChallenge(client[r1]) /\ IsChallenge(client[r2])
        /\ ChallengeNonce(client[r1]) # ChallengeNonce(client[r2])
        /\ BodyField(client[r1].body, "paymentContext").recipient = DefaultRecipient

\* the request's verification has returned without passing
VerifyFailed(r) == vreply[r].kind # "none" /\ ~(vreply[r].kind = "reply" /\ vreply[r].isValid)

\* the status and the detail the spec gives each way a verification can end
ExpectedVerifyStatus(v) ==
    CASE v.kind = "timeout" -> 504
      [] v.kind \in {"transport", "status", "decode"} -> 500
      [] OTHER -> 403

\* C22: verifyPayment's outcomes map to distinct responses, the same on the
\* cache-hit path and on the handler path: a verifier call that exceeds its
\* deadline gives 504; a transport failure, a non-200 verifier status or an
\* undecodable reply gives 500; a decoded reply with is_valid = false is not an
\* error and gives 403 carrying the verifier's error detail.
C22_VerifyOutcomeStatus ==
    \A r \in Reqs :
        VerifyFailed(r) =>
            /\ path[r] \in {"hit", "miss", "bypass"}
            /\ resp[r].status = ExpectedVerifyStatus(vreply[r])
            /\ vreply[r].kind = "reply" =>
                  /\ HasField(resp[r].body, "details")
                  /\ BodyField(resp[r].body, "details") = vreply[r].error
            /\ (client[r] # NoResp /\ ~closed[r]) => client[r] = resp[r]

\* the same invalid reply answered 403 with its detail on both paths
C22_Witness ==
    \E r1, r2 \in Reqs :
        /\ path[r1] = "hit" /\ path[r2] \in {"miss", "bypass"}
        /\ vreply[r1] = vreply[r2]
        /\ vreply[r1].kind = "reply" /\ ~vreply[r1].isValid
        /\ client[r1].status = 403 /\ client[r2].status = 403
        /\ BodyField(client[r1].body, "details") = vreply[r1].error
        /\ client[r1].body = client[r2].body

SameTerms(a, b) ==
    /\ a.recipient = b.recipient
    /\ a.token = b.token
    /\ a.amount = b.amount
    /\ a.chainID = b.chainID

\* C23: verifyPayment sends the verifier a PaymentContext whose nonce is the
\* caller's X-402-Nonce and whose recipient, token, amount and chain id are
\* those of the challenge createPaymentContext issues under the same
\* configuration, so the context a client signed from a 402 challenge is
\* exactly the context verified on the retry.
C23_VerifiedContextIsChallenge ==
    \A i \in 1 .. Len(vlog) :
        LET e == vlog[i]
        IN  /\ e.request.signature = e.signature
            /\ e.request.context.nonce = e.nonce
            /\ \A c \in Challenges :
                  /\ SameTerms(e.request.context, c)
                  /\ (e.signature = Sign(c) /\ e.nonce = c.nonce) =>
                        /\ e.request.context = c
                        /\ e.reply.kind = "reply" => e.reply.isValid /\ e.passes

\* a retry signed over a challenge issued under a non-default configuration passes
C23_Witness ==
    \E i \in 1 .. Len(vlog), c \in Challenges :
        /\ vlog[i].signature = Sign(c) /\ vlog[i].nonce = c.nonce
        /\ vlog[i].request.context = c
        /\ vlog[i].passes
        /\ c.amount # DefaultAmount /\ c.recipient # DefaultRecipient /\ c.chainID # DefaultChainID

RateDenied == rq.status = 429 /\ rq.ran # <<>> /\ rq.ran[1] = "RateLimitMiddleware"

\* C25: when the limiter denies a request, RateLimitMiddleware answers 429
\* with a Retry-After of at least one second and aborts: no timeout guard,
\* cache lookup, verifier call, upstream call or receipt issuance runs for
\* the denied request.
C25_DeniedStopsChain ==
    /\ (rq.index > 1 /\ rq.tier # "" /\ rq.retryAfter # 0) => rq.status = 429
    /\ RateDenied =>
          /\ rq.retryAfter >= 1
          /\ rq.retryAfter >= rq.reset - rq.at
          /\ rq.ran = <<"RateLimitMiddleware">>
          /\ \A i \in 1 .. Len(rq.ran) : rq.ran[i] \notin Downstream
          /\ rq.index > Len(Handlers)

\* a denial whose reset estimate is not in the future: Retry-After is still 1
C25_Witness == RateDenied /\ rq.reset <= rq.at /\ rq.retryAfter = 1 /\ rq.index > Len(Handlers)

\* C26: the standard tier with a nonce-hash key is used exactly when both
\* X-402-Signature and X-402-Nonce are non-empty, otherwise the anonymous
\* tier with the client-IP key; the kind of key and the tier always agree.
C26_TierMatchesKey ==
    rq.tier # "" =>
        LET both == rq.signature # "" /\ rq.nonce # ""
        IN  /\ both <=> (rq.tier = "standard" /\ rq.key = [kind |-> "nonce:", id |-> Hex32(Hash(rq.nonce))])
            /\ ~both <=> (rq.tier = "anonymous" /\ rq.key = [kind |-> "ip:", id |-> rq.ip])
            /\ rq.key.kind = "nonce:" <=> rq.tier = "standard"
            /\ rq.key.kind = "ip:" <=> rq.tier = "anonymous"

\* a request with a signature but no nonce was limited as anonymous, by address
C26_Witness ==
    /\ rq.tier = "anonymous" /\ rq.signature # "" /\ rq.nonce = ""
    /\ rq.key = [kind |-> "ip:", id |-> rq.ip]

\* what the claim calls a receipt that must be rejected
Defective(rc) ==
    \/ rc.nil
    \/ \E f \in StringFields : rc[f] = <<>>
    \/ rc.timestamp = 0
    \/ ~HasPrefix(rc.id, "rcpt_")
    \/ ~HasPrefix(rc.signature, "0x")
    \/ ~HasPrefix(rc.serverPublicKey, "0x")

\* C27: storeReceipt rejects with an error, leaving the receipt index
\* unchanged, any receipt that is nil, lacks a required field, has an id not
\* starting with rcpt_ or a signature or public key not starting with 0x;
\* generateAndSendReceipt then answers 500 and sends neither the
\* X-402-Receipt header nor the result.
C27_DefectiveReceiptRejected ==
    /\ []((gs.calls > 0 /\ Defective(gs.receipt)) =>
              /\ gs.err # NoErr
              /\ gs.status = 500
              /\ gs.header = NilReceipt
              /\ gs.result = NoResult)
    /\ [][(gs'.calls # gs.calls /\ Defective(gs'.receipt)) => receiptStore' = receiptStore]_vars

\* a receipt whose signature lacks the 0x prefix met an index that already held a receipt
C27_Witness ==
    /\ gs.calls > 0
    /\ gs.receipt = Misprefixed(GoodReceipt(1), "signature")
    /\ gs.before # {}
    /\ receiptStore = gs.before
    /\ gs.status = 500

\* C28: under concurrent callers getServerPrivateKey runs the key-loading
\* function at most once per process, and every call returns the same key or
\* error as the first.
C28_KeyLoadedOnce ==
    /\ loads <= 1
    /\ Cardinality(krets) <= 1
    /\ krets # {} => loads = 1 /\ krets = {loadKey(kenv, 1)}

\* both callers have returned twice the one key loaded, one of them found
\* the load already made
C28_Witness ==
    /\ \A c \in KeyCallers : kc[c].calls = MaxKeyCalls
    /\ loads = 1
    /\ krets = {[key |-> <<"key", 1>>, err |-> NoErr]}

\* the request has passed CorrelationIDMiddleware
Correlated(r) == cq[r].pc \notin {"new", "correlation"}
CorrId(r) == cq[r].keys.val

\* C29: CorrelationIDMiddleware echoes the request's X-Correlation-ID in the
\* response when one was supplied and otherwise generates a new identifier
\* that differs between requests; that identifier is the one in the gin
\* context and in the request context, and the one forwarded to the verifier
\* and to the upstream provider for that request.
C29_OneCorrelationId ==
    \A r \in CorrReqs :
        Correlated(r) =>
            /\ cq[r].keys.ok
            /\ cq[r].header # NoHeader => CorrId(r) = cq[r].header
            /\ cq[r].header = NoHeader =>
                  /\ \E n \in 1 .. cuuids : CorrId(r) = Uuid(n)
                  /\ \A q \in CorrReqs \ {r} :
                        (Correlated(q) /\ cq[q].header = NoHeader) => CorrId(q) # CorrId(r)
            /\ Value(cq[r].ctx, correlationIDKey) = [ok |-> TRUE, val |-> CorrId(r)]
            /\ cq[r].head = [ok |-> TRUE, val |-> CorrId(r)]
            /\ cq[r].pc = "done" => cq[r].sent = [ok |-> TRUE, val |-> CorrId(r)]
            /\ cq[r].toVerifier \in {NoForward, <<"id", CorrId(r)>>}
            /\ cq[r].toUpstream \in {NoForward, <<"id", CorrId(r)>>}
            /\ cq[r].pc = "upstream" => cq[r].toVerifier # NoForward
            /\ (cq[r].pc = "done" /\ cq[r].toUpstream # NoForward) => cq[r].toVerifier # NoForward

\* two answered requests without the header, each under both guards, each
\* with its own generated identifier on the verifier and upstream calls
C29_Witness ==
    /\ \A r \in CorrReqs :
          /\ cq[r].pc = "done" /\ cq[r].header = NoHeader
          /\ Len(cq[r].ctx) = 3
          /\ cq[r].toVerifier = <<"id", CorrId(r)>>
          /\ cq[r].toUpstream = <<"id", CorrId(r)>>
          /\ cq[r].sent.val = CorrId(r)
    /\ cuuids = NCorr

\* C30: while the guard is RUNNING, no operation of the handler on c.Writer
\* (Write, WriteString, WriteHeader, WriteHeaderNow, header mutation, Flush,
\* Hijack) makes a status, header or body byte reach the real writer; the
\* real writer is first touched at the guard's decision point.
C30_RunningWriterUntouched == guard = "RUNNING" => (orig = Untouched /\ ~hijacked)

\* the handler goroutine has ended: c.Next() returned, or its panic value was taken
HandlerGone == hpc \in {"done", "gone"}

\* C31: after the guard enters TIMED_OUT the handler's context is cancelled
\* and the handler goroutine eventually terminates, given that its downstream
\* calls return on cancellation, also when it panics after the deadline has
\* fired: no handler goroutine stays blocked forever.
C31_HandlerTerminates ==
    /\ [](guard = "TIMED_OUT" => ctxErr # "")
    /\ (guard = "TIMED_OUT") ~> HandlerGone

\* the requests that missed on key k while it was absent and went on to the upstream call
MissedCallers(k) ==
    {r \in Reqs : /\ lookup[r] = "absent" /\ path[r] = "miss"
                  /\ getCacheKey(req[r].text) = k /\ aiCalled[r]}

\* C32: each cache key's entry is written once on a miss: requests for the
\* same text and model that all miss while the entry is absent lead to at
\* most one upstream call and store for the key, and a later store to the
\* key leaves the entry's result unchanged.
C32_WrittenOnce ==
    /\ [](\A k \in CacheKeys : Cardinality(MissedCallers(k)) <= 1)
    /\ [][\A k \in CacheKeys : cache[k] # NoEntry => cache'[k] = cache[k]]_vars

\* C33: a client cannot get past the address-keyed limit with made-up
\* nonces: the requests from one client address admitted with no time
\* elapsed, none with a signature that verifies, number at most one bucket's
\* burst, however many distinct nonces the client sends.
C33_NoNonceBypass == \A ip \in ClientIPs : admits[ip] <= RateBurst

\* ------------------------------------------------------- admission bound
\* the Allow calls on k from the i-th to the j-th that were admitted
AdmittedIn(k, i, j) == Cardinality({m \in i .. j : hist[k][m].ok})

\* C34: for any key and any window of t seconds, the admitted Allow calls are
\* at most B + t * rpm / 60, whatever the cleanup TTL, sweeps that remove the
\* key's bucket and let it be created again full included.
C34_WindowBound ==
    \A k \in TBKeys : \A i, j \in 1 .. Len(hist[k]) :
        i <= j =>
            AdmittedIn(k, i, j) * TokenUnit
                <= Capacity + (hist[k][j].at - hist[k][i].at) * Rpm

\* C35: the guard writes the 504 Gateway Timeout response only when the
\* request's deadline has elapsed; a context cancelled for another reason
\* (client gone, parent cancelled) produces no 504.
C35_TimeoutOnlyOnDeadline ==
    sent504 => (ctxErr = "DeadlineExceeded" /\ ctxDeadline.ok /\ now >= ctxDeadline.d)

\* ------------------------------------------------------------ nested guards
\* guard 1 has returned (and gin.Recovery has answered a panic)
Delivered == ng[1] \in {"COMPLETED", "TIMED_OUT", "RECOVERED"}

\* what the real writer holds is the timeout response, whole and alone
TimeoutDelivered ==
    /\ nreal.status = StatusGatewayTimeout
    /\ nreal.body = <<TimeoutBody>>
    /\ nreal.head["Content-Type"] = <<TimeoutContentType>>

\* ... the handler's response, whole and alone
HandlerDelivered ==
    /\ nh[2] = "done"
    /\ nreal.status = nhw.status
    /\ nreal.body = nhw.body
    /\ nreal.head = NoHead

\* ... the answer to a panic
PanicDelivered == nreal.status = StatusInternalServerError /\ nreal.body = <<>>

\* C36: with the global and the route-level guard nested around one handler
\* the client receives exactly one complete response in every interleaving:
\* when the inner guard times out first its 504 is what the outer guard
\* delivers, and when both guards time out the client still gets a single 504,
\* never parts of two responses.
C36_OneResponseNested ==
    /\ nreal.calls <= 1
    /\ nreal.body \in {<<>>, <<TimeoutBody>>, nhw.body}
    /\ Delivered =>
          /\ nreal.calls = 1
          /\ TimeoutDelivered \/ HandlerDelivered \/ PanicDelivered
    /\ (ng[2] = "TIMED_OUT" /\ Delivered) => TimeoutDelivered
    /\ (ng[1] = "TIMED_OUT") => TimeoutDelivered

\* the inner guard timed out first and the outer one flushed its 504
C36_Witness ==
    /\ ng[2] = "TIMED_OUT"
    /\ ng[1] = "COMPLETED"
    /\ nh[2] = "running"
    /\ nhw.body # <<>>
    /\ TimeoutDelivered

\* both guards saw the deadline pass and both wrote a 504
C36_WitnessBoth ==
    /\ ng[2] = "TIMED_OUT"
    /\ ng[1] = "TIMED_OUT"
    /\ nctx[1].d = nctx[2].d
    /\ nbw[1].buf = <<TimeoutBody>>
    /\ TimeoutDelivered

\* ------------------------------------------------------ cache layer, end to end
ServedBothWays == tst.with # 0 /\ tst.alone # 0

\* C37: for every signed request that is not answered from the cache, the
\* status the client gets with CacheMiddleware installed is the status
\* handleSummarize alone returns for the same request and the same behaviour
\* of verifier and AI service: the cache layer does not change which error a
\* request receives.
C37_CacheLayerTransparent ==
    (ServedBothWays /\ tq.signed /\ tq.lookup # "hit") => tst.with = tst.alone

\* ------------------------------------------------------------- cache keys
\* C38: getCacheKey gives two (text, model) pairs the same key only if text and
\* model are equal, so an entry a lookup returns was stored for the text asked
\* for under the model now configured, never under a previous model.
C38_KeySeparatesModels ==
    kgot.found => kgot.entry = <<kgot.text, kgot.model>>

\* ------------------------------------------------------------ receipt sweeper
InIndex(id) == \E e \in receiptStore : e.receipt.id = id

C39_WitnessFinal ==
    /\ mainpc = "exited"
    /\ sweeppc = "stopped"
    /\ \E i \in issued : ~InIndex(i.receipt.id) /\ After(rnow, i.at + rttl)
    /\ \E i \in issued : InIndex(i.receipt.id)

====
